---- MODULE Spec2Model ----
(***************************************************************************)
(* Tag acquisition service of step7trend: S7Service (services/s7_service), *)
(* S7Driver (drivers/s7_driver), WorkspaceStorage (storage/workspace) and  *)
(* AppState (state).  Caller threads invoke the service's methods one      *)
(* statement at a time; poll threads run S7Service._poll_loop.             *)
(*                                                                         *)
(* The service is built as in ui_app: with an AppState and a logger that   *)
(* does not raise.  A statement that only touches one shared attribute is  *)
(* one step (the interpreter lock makes it atomic), and so is a statement  *)
(* run under AppState.lock.  A list bound to self.tags or self.active_tags *)
(* is never mutated, only replaced, so a list value stands for the list    *)
(* object.  Time is not measured: join(timeout=2) may give up whenever the *)
(* joined thread is inside a call that takes time.                         *)
(***************************************************************************)
EXTENDS Integers, Sequences, FiniteSets, TLC

\* ---------------------------------------------------------------- bounds
MaxThreads == 2      \* threading.Thread objects ever created
MaxDrivers == 2      \* S7Driver objects ever created
MaxSamples == 2      \* a poll cycle starts only below this many stored rows
MaxTime    == 1      \* largest value of the wall clock
MaxOps     == 4      \* service method calls made by one caller
MaxRaceOps == 2      \* the same, when two callers run at once
MaxWriteOps == 3     \* the same, when the caller writes and reads tags
MaxCatalogOps == 4   \* the same, when the caller redefines tags
MaxRows    == 3      \* rows of the samples table, when the store is called directly
MaxTs      == 2      \* largest timestamp handed to the store directly
MaxSpecs   == 2      \* specs in a list handed to upsert_tags directly
MaxData    == 5      \* bytes handed to _decode_value directly

Callers == {"ui", "aux"}
Names   == {"a", "b"}
Addrs   == 0 .. 1

ThreadIds == 1 .. MaxThreads
DriverIds == 1 .. MaxDrivers

TagSpec(n, b) == [name |-> n, byte_index |-> b]

\* tag lists handed to the constructor and to set_tags
CatalogInputs == { <<TagSpec("a", 0), TagSpec("b", 1)>>, <<TagSpec("b", 0)>> }
InitTagLists  == { <<>>, <<TagSpec("a", 0), TagSpec("b", 1)>> }
\* tag lists that define a name twice, or anew at another address
RedefInputs == CatalogInputs \cup { <<TagSpec("a", 0), TagSpec("a", 1)>>, <<TagSpec("a", 1)>> }
\* name collections handed to set_active_tags
NameInputs == { {}, {"a"}, Names }

VARIABLES
    SNAP7_AVAILABLE, \* s7_driver module flag: the snap7 import succeeded
    mem,             \* controller memory, byte_index -> value
    now,             \* wall clock read by time.time()
    tags,            \* S7Service.tags
    active_tags,     \* S7Service.active_tags
    driver,          \* S7Service.driver: 0 is None, else an S7Driver object
    client,          \* S7Driver.client of every driver object
    thread,          \* S7Service._thread: 0 is None, else a Thread object
    stop_event,      \* S7Service._stop_event
    thr,             \* every Thread object: position in _poll_loop and locals
    latest_tags,     \* AppState.latest_tags
    available_tags,  \* AppState.available_tags
    db_tags,         \* table tags of the workspace database, keyed by name
    samples,         \* table samples, in id order, as the connection sees it
    txn,             \* -1 when the connection has no open transaction, else the
                     \* number of rows the table had when the transaction began
    pc,              \* position of every caller inside a service method
    loc,             \* every caller's locals
    ret,             \* every caller's last call and how it ended
    quiet,           \* no other caller took a step since the caller's last call began
    prev,            \* the method the caller called before its last call
    quietPrev,       \* no other caller took a step since that earlier call began
    ops              \* service method calls every caller made so far

vars == << SNAP7_AVAILABLE, mem, now, tags, active_tags, driver, client, thread,
           stop_event, thr, latest_tags, available_tags, db_tags, samples, txn,
           pc, loc, ret, quiet, prev, quietPrev, ops >>

envVars    == << SNAP7_AVAILABLE, mem >>
callerVars == << pc, loc, ret, quiet, prev, quietPrev, ops >>

\* ------------------------------------------------------------- helpers
NamesOf(s) == { s[i].name : i \in 1 .. Len(s) }

\* ORDER BY name: the names of S in ascending order
SeqOfSet(S) == SelectSeq(<<"a", "b">>, LAMBDA n : n \in S)

\* dict built by a comprehension {tag.name: 0.0 for tag in lst}
ResetDict(lst) == [n \in NamesOf(lst) |-> 0]

\* (mutant) the update stores one item of other and stops
DictUpdateFirstItem(d, other) ==
    IF DOMAIN other = {} THEN d
    ELSE LET k == CHOOSE n \in DOMAIN other : TRUE
         IN [n \in DOMAIN d \cup {k} |-> IF n = k THEN other[k] ELSE d[n]]

\* dict.update(other)
DictUpdate(d, other) ==
    [n \in DOMAIN d \cup DOMAIN other |-> IF n \in DOMAIN other THEN other[n] ELSE d[n]]

NoCall == [op |-> "none", res |-> "none", pre |-> ""]

NoLocals == [iter |-> <<>>, idx |-> 0, values |-> <<>>]
NoThread == [pc |-> "unborn"] @@ NoLocals

\* threading.Thread.is_alive()
IsAlive(t) == thr[t].pc \notin {"unborn", "created", "dead"}

AliveThreads == { t \in ThreadIds : IsAlive(t) }

\* the thread is between the start and the end of one poll cycle
InCycle(t) == thr[t].pc \in {"ro_check", "ro_iter", "ro_read", "insert", "publish", "refresh"}

\* dict item assignment values[name] = v on a dict kept in insertion order
DictPut(values, n, v) ==
    IF \E i \in 1 .. Len(values) : values[i][1] = n
    THEN [i \in 1 .. Len(values) |-> IF values[i][1] = n THEN <<n, v>> ELSE values[i]]
    ELSE Append(values, <<n, v>>)

\* {k: float(v) for k, v in values.items()}
AsDict(values) ==
    [n \in { values[i][1] : i \in 1 .. Len(values) } |->
        LET i == CHOOSE j \in 1 .. Len(values) : values[j][1] = n IN values[i][2]]

\* the session of the service's current driver object is open
Connected == driver # 0 /\ client[driver] = "open"

\* what the service holds as its driver session
DriverState == IF driver = 0 THEN "nodriver" ELSE client[driver]

\* number of controller sessions that are open
OpenSessions == Cardinality({ d \in DriverIds : client[d] = "open" })

\* time.time(): the clock never runs backwards
TimeReadings == { now } \cup (IF now < MaxTime THEN { now + 1 } ELSE {})

\* (mutant) a row whose name is in the table is left as it is
upsert_tags_ignore(db, lst) ==
    [n \in DOMAIN db \cup NamesOf(lst) |->
        IF n \in DOMAIN db THEN db[n]
        ELSE LET i == CHOOSE j \in 1 .. Len(lst) : lst[j].name = n IN lst[i]]

\* WorkspaceStorage.upsert_tags: INSERT ... ON CONFLICT(name) DO UPDATE, row by row
upsert_tags(db, lst) ==
    [n \in DOMAIN db \cup NamesOf(lst) |->
        IF n \in NamesOf(lst)
        THEN LET i == CHOOSE j \in 1 .. Len(lst) :
                          /\ lst[j].name = n
                          /\ \A k \in j + 1 .. Len(lst) : lst[k].name # n
             IN lst[i]
        ELSE db[n]]

\* WorkspaceStorage.list_tags: SELECT name FROM tags ORDER BY name
list_tags == SeqOfSet(DOMAIN db_tags)

\* --------------------------------------------------------------- Init
Init ==
    /\ SNAP7_AVAILABLE \in BOOLEAN
    /\ mem = [a \in Addrs |-> 1 - a]
    /\ now = 0
    /\ tags \in InitTagLists
    /\ active_tags = tags
    /\ driver = 0
    /\ client = [d \in DriverIds |-> "unborn"]
    /\ thread = 0
    /\ stop_event = FALSE
    /\ thr = [t \in ThreadIds |-> NoThread]
    /\ latest_tags = << >>
    /\ available_tags = << >>
    /\ db_tags = upsert_tags(<< >>, tags)
    /\ samples = << >>
    /\ txn = -1
    /\ pc = [c \in Callers |-> "idle"]
    /\ loc = [c \in Callers |-> 0]
    /\ ret = [c \in Callers |-> NoCall]
    /\ quiet = [c \in Callers |-> TRUE]
    /\ prev = [c \in Callers |-> "none"]
    /\ quietPrev = [c \in Callers |-> TRUE]
    /\ ops = [c \in Callers |-> 0]

\* ------------------------------------------------- S7Service._poll_loop
serviceVars == << tags, active_tags, driver, client, thread, stop_event >>
storeVars   == << db_tags, samples, txn >>
stateVars   == << latest_tags, available_tags >>

\* (mutant) the loop indexes self.active_tags anew for every tag
IterListLive(t) == active_tags

\* the list the for statement of read_once iterates: the list object that
\* self.active_tags referred to when the loop began
IterList(t) == thr[t].iter

\* (mutant) an error raised inside a cycle ends the thread
PollExceptDies(t) == [pc |-> "dead"] @@ NoLocals

\* except Exception: the error is logged and the loop goes on to its sleep
PollExcept(t) == [pc |-> "sleep"] @@ NoLocals

\* the end of the try block: on to time.sleep
CycleDone(t) == [pc |-> "sleep"] @@ NoLocals

\* while not self._stop_event.is_set()
PollWhile(t) ==
    /\ thr[t].pc = "while"
    /\ IF stop_event
       THEN thr' = [thr EXCEPT ![t] = [pc |-> "dead"] @@ NoLocals]
       ELSE /\ Len(samples) < MaxSamples
            /\ thr' = [thr EXCEPT ![t].pc = "ro_check"]
    /\ UNCHANGED << envVars, now, serviceVars, storeVars, stateVars, callerVars >>

\* read_once: if not self.driver: raise RuntimeError
PollReadCheck(t) ==
    /\ thr[t].pc = "ro_check"
    /\ thr' = [thr EXCEPT ![t] = IF driver = 0 THEN PollExcept(t)
                                  ELSE [thr[t] EXCEPT !.pc = "ro_iter"]]
    /\ UNCHANGED << envVars, now, serviceVars, storeVars, stateVars, callerVars >>

\* read_once: for tag in self.active_tags
PollReadIter(t) ==
    /\ thr[t].pc = "ro_iter"
    /\ thr' = [thr EXCEPT ![t] = [pc |-> "ro_read", iter |-> active_tags,
                                   idx |-> 1, values |-> << >>]]
    /\ UNCHANGED << envVars, now, serviceVars, storeVars, stateVars, callerVars >>

\* S7Driver.read_tag as called through self.driver: the decoded value, or an
\* exception (no driver, no client, or the area read or the decoding raised)
ReadTagOutcomes(tag) ==
    IF driver = 0 \/ client[driver] # "open"
    THEN { [ok |-> FALSE, v |-> 0] }
    ELSE { [ok |-> TRUE, v |-> mem[tag.byte_index]], [ok |-> FALSE, v |-> 0] }

\* read_once: values[tag.name] = self.driver.read_tag(tag), or the end of the loop
PollReadTag(t) ==
    /\ thr[t].pc = "ro_read"
    /\ IF thr[t].idx > Len(IterList(t))
       THEN thr' = [thr EXCEPT ![t].pc = "insert"]
       ELSE LET tag == IterList(t)[thr[t].idx] IN
            \E r \in ReadTagOutcomes(tag) :
                thr' = [thr EXCEPT ![t] =
                          IF ~r.ok THEN PollExcept(t)
                          ELSE [thr[t] EXCEPT !.idx = @ + 1,
                                              !.values = DictPut(@, tag.name, r.v)]]
    /\ UNCHANGED << envVars, now, serviceVars, storeVars, stateVars, callerVars >>

\* (mutant) every row of a cycle gets a clock reading of its own
BatchRowsOwnTs(values, ts) ==
    [i \in 1 .. Len(values) |-> [tag_name |-> values[i][1], ts |-> ts + i, value |-> values[i][2]]]

\* the rows insert_samples appends for one cycle
BatchRows(values, ts) ==
    [i \in 1 .. Len(values) |-> [tag_name |-> values[i][1], ts |-> ts, value |-> values[i][2]]]

\* ts = time.time(); self.storage.insert_samples(samples), which may raise
PollInsert(t) ==
    /\ thr[t].pc = "insert"
    /\ \E ts \in TimeReadings :
        /\ now' = ts
        /\ \/ /\ samples' = samples \o BatchRows(thr[t].values, ts)
              /\ thr' = [thr EXCEPT ![t].pc = "publish"]
           \/ /\ samples' = samples
              /\ thr' = [thr EXCEPT ![t] = PollExcept(t)]
    /\ UNCHANGED << envVars, serviceVars, db_tags, txn, stateVars, callerVars >>

\* with self.state.lock: self.state.latest_tags.update(...)
PollPublish(t) ==
    /\ thr[t].pc = "publish"
    /\ latest_tags' = DictUpdate(latest_tags, AsDict(thr[t].values))
    /\ thr' = [thr EXCEPT ![t].pc = "refresh"]
    /\ UNCHANGED << envVars, now, serviceVars, storeVars, available_tags, callerVars >>

\* self.state.refresh_tags(self.storage.list_tags()), which may raise
PollRefresh(t) ==
    /\ thr[t].pc = "refresh"
    /\ \/ /\ available_tags' = list_tags
          /\ thr' = [thr EXCEPT ![t] = CycleDone(t)]
       \/ /\ available_tags' = available_tags
          /\ thr' = [thr EXCEPT ![t] = PollExcept(t)]
    /\ UNCHANGED << envVars, now, serviceVars, storeVars, latest_tags, callerVars >>

\* time.sleep(self.poll_interval)
PollSleep(t) ==
    /\ thr[t].pc = "sleep"
    /\ thr' = [thr EXCEPT ![t].pc = "while"]
    /\ UNCHANGED << envVars, now, serviceVars, storeVars, stateVars, callerVars >>

\* ------------------------------------------------------- caller steps
\* One statement of a service method run by caller c: from position `from`
\* to position `to`; "idle" is outside every method.  res is how the call
\* ended, pre what held when it began.
CallerStep(c, op, from, to, res, pre, newloc) ==
    /\ pc[c] = from
    /\ from = "idle" => ops[c] < MaxOps
    /\ pc' = [pc EXCEPT ![c] = to]
    /\ loc' = [loc EXCEPT ![c] = newloc]
    /\ ops' = IF from = "idle" THEN [ops EXCEPT ![c] = @ + 1] ELSE ops
    /\ prev' = IF from = "idle" THEN [prev EXCEPT ![c] = ret[c].op] ELSE prev
    /\ ret' = [ret EXCEPT ![c] =
                [op  |-> op,
                 res |-> IF to = "idle" THEN res ELSE "running",
                 pre |-> IF from = "idle" THEN pre ELSE ret[c].pre]]
    /\ quiet' = [d \in Callers |->
                  IF d = c THEN (from = "idle" \/ quiet[c]) ELSE FALSE]
    /\ quietPrev' = [d \in Callers |->
                  IF d = c THEN (IF from = "idle" THEN quiet[c] ELSE quietPrev[c])
                  ELSE FALSE]

\* a Thread object / S7Driver object not yet constructed
FreshThread == CHOOSE t \in ThreadIds : thr[t].pc = "unborn" /\ \A u \in 1 .. t - 1 : thr[u].pc # "unborn"
FreshDriver == CHOOSE d \in DriverIds : client[d] = "unborn" /\ \A e \in 1 .. d - 1 : client[e] # "unborn"

\* ------------------------------------------------ S7Service.start_polling
\* if self._thread and self._thread.is_alive(): return
StartCheck(c) ==
    /\ IF thread # 0 /\ IsAlive(thread)
       THEN CallerStep(c, "start_polling", "idle", "idle", "noop", DriverState, 0)
       ELSE CallerStep(c, "start_polling", "idle", "sp_clear", "", DriverState, 0)
    /\ UNCHANGED << envVars, now, serviceVars, thr, storeVars, stateVars >>

\* self._stop_event.clear()
StartClear(c) ==
    /\ CallerStep(c, "start_polling", "sp_clear", "sp_create", "", "", 0)
    /\ stop_event' = FALSE
    /\ UNCHANGED << envVars, now, tags, active_tags, driver, client, thread,
                    thr, storeVars, stateVars >>

\* self._thread = threading.Thread(target=self._poll_loop, daemon=True)
StartCreate(c) ==
    /\ \E t \in ThreadIds : thr[t].pc = "unborn"
    /\ CallerStep(c, "start_polling", "sp_create", "sp_start", "", "", 0)
    /\ thr' = [thr EXCEPT ![FreshThread].pc = "created"]
    /\ thread' = FreshThread
    /\ UNCHANGED << envVars, now, tags, active_tags, driver, client, stop_event,
                    storeVars, stateVars >>

\* self._thread.start(): a Thread object can be started once
StartRun(c) ==
    /\ pc[c] = "sp_start"
    /\ IF thr[thread].pc = "created"
       THEN /\ CallerStep(c, "start_polling", "sp_start", "idle", "started", "", 0)
            /\ thr' = [thr EXCEPT ![thread].pc = "while"]
       ELSE /\ CallerStep(c, "start_polling", "sp_start", "idle", "RuntimeError", "", 0)
            /\ thr' = thr
    /\ UNCHANGED << envVars, now, serviceVars, storeVars, stateVars >>

\* ------------------------------------------------- S7Service.stop_polling
\* if self._thread: self._thread.join(timeout=2), entered: the call goes
\* to `done` when there is nothing to wait for, else to `wait`
JoinEnter(c, op, from, wait, done) ==
    /\ pc[c] = from
    /\ IF thread = 0 \/ thr[thread].pc = "dead"
       THEN CallerStep(c, op, from, done, "ok", "", 0)
       ELSE IF thr[thread].pc = "created"
       THEN CallerStep(c, op, from, "idle", "RuntimeError", "", 0)
       ELSE CallerStep(c, op, from, wait, "", "", thread)

\* the thread is inside a call that takes time: a driver read (bounded by the
\* driver's own timeout), a database call, or time.sleep(self.poll_interval)
Blocked(t) == thr[t].pc \in {"ro_read", "insert", "refresh", "sleep"}

\* join(timeout=2) returns: the thread has ended, or the two seconds are over
\* while the thread is still inside a call that takes time
JoinWait(c, op, from, done) ==
    /\ pc[c] = from
    /\ thr[loc[c]].pc = "dead" \/ Blocked(loc[c])
    /\ CallerStep(c, op, from, done, "ok", "", 0)

\* self._stop_event.set()
StopSet(c) ==
    /\ CallerStep(c, "stop_polling", "idle", "st_join", "", "", 0)
    /\ stop_event' = TRUE
    /\ UNCHANGED << envVars, now, tags, active_tags, driver, client, thread,
                    thr, storeVars, stateVars >>

StopJoinEnter(c) ==
    /\ JoinEnter(c, "stop_polling", "st_join", "st_wait", "idle")
    /\ UNCHANGED << envVars, now, serviceVars, thr, storeVars, stateVars >>

StopJoinWait(c) ==
    /\ JoinWait(c, "stop_polling", "st_wait", "idle")
    /\ UNCHANGED << envVars, now, serviceVars, thr, storeVars, stateVars >>

\* --------------------------------------------------- S7Service.disconnect
\* self.stop_polling(): self._stop_event.set()
DiscStopSet(c) ==
    /\ CallerStep(c, "disconnect", "idle", "dc_join", "", "", 0)
    /\ stop_event' = TRUE
    /\ UNCHANGED << envVars, now, tags, active_tags, driver, client, thread,
                    thr, storeVars, stateVars >>

DiscJoinEnter(c) ==
    /\ JoinEnter(c, "disconnect", "dc_join", "dc_wait", "dc_check")
    /\ UNCHANGED << envVars, now, serviceVars, thr, storeVars, stateVars >>

DiscJoinWait(c) ==
    /\ JoinWait(c, "disconnect", "dc_wait", "dc_check")
    /\ UNCHANGED << envVars, now, serviceVars, thr, storeVars, stateVars >>

\* if self.driver:
DiscCheck(c) ==
    /\ pc[c] = "dc_check"
    /\ IF driver = 0
       THEN CallerStep(c, "disconnect", "dc_check", "idle", "ok", "", 0)
       ELSE CallerStep(c, "disconnect", "dc_check", "dc_close", "", "", 0)
    /\ UNCHANGED << envVars, now, serviceVars, thr, storeVars, stateVars >>

\* self.driver.disconnect(): S7Driver.disconnect closes the client, if any,
\* and forgets it
DiscClose(c) ==
    /\ pc[c] = "dc_close"
    /\ IF driver = 0
       THEN /\ CallerStep(c, "disconnect", "dc_close", "idle", "AttributeError", "", 0)
            /\ client' = client
       ELSE /\ CallerStep(c, "disconnect", "dc_close", "dc_clear", "", "", 0)
            /\ client' = [client EXCEPT ![driver] = "none"]
    /\ UNCHANGED << envVars, now, tags, active_tags, driver, thread, stop_event,
                    thr, storeVars, stateVars >>

\* self.driver = None
DiscClear(c) ==
    /\ CallerStep(c, "disconnect", "dc_clear", "idle", "ok", "", 0)
    /\ driver' = 0
    /\ UNCHANGED << envVars, now, tags, active_tags, client, thread, stop_event,
                    thr, storeVars, stateVars >>

\* ------------------------------------------------------ S7Service.connect
\* self.driver = S7Driver(ip=ip, rack=rack, slot=slot, port=port)
ConnectNew(c) ==
    /\ \E d \in DriverIds : client[d] = "unborn"
    /\ CallerStep(c, "connect", "idle", "cn_open", "", "", 0)
    /\ client' = [client EXCEPT ![FreshDriver] = "none"]
    /\ driver' = FreshDriver
    /\ UNCHANGED << envVars, now, tags, active_tags, thread, stop_event,
                    thr, storeVars, stateVars >>

\* self.driver.connect(): S7Driver.connect raises when snap7 is missing, else
\* makes a new client and connects it, which may raise
ConnectOpen(c) ==
    /\ pc[c] = "cn_open"
    /\ IF driver = 0
       THEN /\ CallerStep(c, "connect", "cn_open", "idle", "AttributeError", "", 0)
            /\ client' = client
       ELSE IF ~SNAP7_AVAILABLE
       THEN /\ CallerStep(c, "connect", "cn_open", "idle", "ConnectionError", "", 0)
            /\ client' = client
       ELSE \/ /\ CallerStep(c, "connect", "cn_open", "idle", "ok", "", 0)
               /\ client' = [client EXCEPT ![driver] = "open"]
            \/ /\ CallerStep(c, "connect", "cn_open", "idle", "ConnectionError", "", 0)
               /\ client' = [client EXCEPT ![driver] = "unconnected"]
    /\ UNCHANGED << envVars, now, tags, active_tags, driver, thread, stop_event,
                    thr, storeVars, stateVars >>

\* ----------------------------------------------------- S7Service.set_tags
\* self.tags = list(tags)
SetTagsAssignFrom(c, lists) ==
    /\ \E lst \in lists : tags' = lst
    /\ CallerStep(c, "set_tags", "idle", "st_active", "", "", 0)
    /\ UNCHANGED << envVars, now, active_tags, driver, client, thread, stop_event,
                    thr, storeVars, stateVars >>

SetTagsAssign(c) == SetTagsAssignFrom(c, CatalogInputs)

\* set_tags with a list that defines a name twice, or anew at another address
SetTagsAssignAgain(c) == SetTagsAssignFrom(c, RedefInputs)

\* self.active_tags = list(self.tags)
SetTagsActive(c) ==
    /\ CallerStep(c, "set_tags", "st_active", "st_upsert", "", "", 0)
    /\ active_tags' = tags
    /\ UNCHANGED << envVars, now, tags, driver, client, thread, stop_event,
                    thr, storeVars, stateVars >>

\* self.storage.upsert_tags(self.tags)
SetTagsUpsert(c) ==
    /\ CallerStep(c, "set_tags", "st_upsert", "st_reset", "", "", 0)
    /\ db_tags' = upsert_tags(db_tags, tags)
    /\ UNCHANGED << envVars, now, serviceVars, thr, samples, txn, stateVars >>

\* with self.state.lock: self.state.latest_tags = {tag.name: 0.0 for tag in self.tags}
SetTagsReset(c) ==
    /\ CallerStep(c, "set_tags", "st_reset", "idle", "ok", "", 0)
    /\ latest_tags' = ResetDict(tags)
    /\ UNCHANGED << envVars, now, serviceVars, thr, storeVars, available_tags >>

\* ---------------------------------------------- S7Service.set_active_tags
\* (mutant) the names are ignored: every tag of self.tags is selected
SelectedAll(names) == tags

\* the tags of self.tags whose name is in tag_names, in the order of self.tags
Selected(names) == SelectSeq(tags, LAMBDA tag : tag.name \in names)

\* self.active_tags = selected
SetActiveAssign(c) ==
    /\ \E names \in NameInputs :
          /\ active_tags' = Selected(names)
          /\ CallerStep(c, "set_active_tags", "idle", "sa_reset", "", "", names)
    /\ UNCHANGED << envVars, now, tags, driver, client, thread, stop_event,
                    thr, storeVars, stateVars >>

\* with self.state.lock: self.state.latest_tags = {tag.name: 0.0 for tag in self.active_tags}
SetActiveReset(c) ==
    /\ CallerStep(c, "set_active_tags", "sa_reset", "idle", "ok", "", 0)
    /\ latest_tags' = ResetDict(active_tags)
    /\ UNCHANGED << envVars, now, serviceVars, thr, storeVars, available_tags >>

\* ------------------------------------------------------- specification
PollStep(t) ==
    \/ PollWhile(t)
    \/ PollReadCheck(t)
    \/ PollReadIter(t)
    \/ PollReadTag(t)
    \/ PollInsert(t)
    \/ PollPublish(t)
    \/ PollRefresh(t)
    \/ PollSleep(t)

\* start_polling, stop_polling and disconnect, the calls that start and end poll loops
LifeStep(c) ==
    \/ StartCheck(c) \/ StartClear(c) \/ StartCreate(c) \/ StartRun(c)
    \/ StopSet(c) \/ StopJoinEnter(c) \/ StopJoinWait(c)
    \/ DiscStopSet(c) \/ DiscJoinEnter(c) \/ DiscJoinWait(c)
    \/ DiscCheck(c) \/ DiscClose(c) \/ DiscClear(c)

CallStep(c) ==
    \/ LifeStep(c)
    \/ ConnectNew(c) \/ ConnectOpen(c)
    \/ SetTagsAssign(c) \/ SetTagsActive(c) \/ SetTagsUpsert(c) \/ SetTagsReset(c)
    \/ SetActiveAssign(c) \/ SetActiveReset(c)

\* one caller thread (the user interface's callback thread) and the poll loop
Next ==
    \/ \E t \in ThreadIds : PollStep(t)
    \/ CallStep("ui")

Spec == Init /\ [][Next]_vars

\* two caller threads that start and stop polling at once, and the poll loops;
\* "ui" may connect first.  A caller begins at most MaxRaceOps calls.
RaceBudget(c) == ops[c] < MaxRaceOps

RaceStep(c) ==
    \/ RaceBudget(c) /\ StartCheck(c)
    \/ StartClear(c) \/ StartCreate(c) \/ StartRun(c)
    \/ RaceBudget(c) /\ StopSet(c)
    \/ StopJoinEnter(c) \/ StopJoinWait(c)
    \/ RaceBudget(c) /\ DiscStopSet(c)
    \/ DiscJoinEnter(c) \/ DiscJoinWait(c)
    \/ DiscCheck(c) \/ DiscClose(c) \/ DiscClear(c)

NextRace ==
    \/ \E t \in ThreadIds : PollStep(t)
    \/ \E c \in Callers : RaceStep(c)
    \/ RaceBudget("ui") /\ ConnectNew("ui")
    \/ ConnectOpen("ui")

SpecRace == Init /\ [][NextRace]_vars

\* ---------------------------------------------------- S7Service.write_tag
\* names and values handed to write_tag; the values are whole numbers, which
\* float(value) and the driver's int(value) keep as they are
WriteNames  == Names \cup {"c"}
WriteValues == 0 .. 1

NoTag == TagSpec("", 0)

\* S7Service._find_tag: the first tag of self.tags with that name
_find_tag(tag_name) ==
    LET i == CHOOSE j \in 1 .. Len(tags) :
                 /\ tags[j].name = tag_name
                 /\ \A k \in 1 .. j - 1 : tags[k].name # tag_name
    IN tags[i]

\* the exception a call through self.driver ends with when it fails: no driver
\* object, a driver without a client, or an error of the client library
DriverError ==
    IF driver = 0 THEN "AttributeError"
    ELSE IF client[driver] = "none" THEN "RuntimeError"
    ELSE "DriverError"

\* (mutant) a write that fails has already changed the controller
WriteTagOutcomesDirty(tag, value) ==
    { [ok |-> FALSE, mem |-> [mem EXCEPT ![tag.byte_index] = value]] }

\* S7Driver.write_tag as called through self.driver: the controller memory
\* after the call, and whether the call returned or raised
WriteTagOutcomes(tag, value) ==
    IF driver = 0 \/ client[driver] # "open"
    THEN { [ok |-> FALSE, mem |-> mem] }
    ELSE { [ok |-> TRUE, mem |-> [mem EXCEPT ![tag.byte_index] = value]],
           [ok |-> FALSE, mem |-> mem] }

\* (mutant) the assignment replaces the dict by one that holds the item alone
DictSetItemAlone(d, n, v) == [m \in {n} |-> v]

\* dict item assignment d[n] = v
DictSetItem(d, n, v) == [m \in DOMAIN d \cup {n} |-> IF m = n THEN v ELSE d[m]]

\* if not self.driver: raise RuntimeError("S7 driver is not connected")
WriteCheck(c) ==
    /\ \E n \in WriteNames, v \in WriteValues :
          IF driver = 0
          THEN CallerStep(c, "write_tag", "idle", "idle", "RuntimeError", "", 0)
          ELSE CallerStep(c, "write_tag", "idle", "wt_find", "", "",
                          [name |-> n, value |-> v, tag |-> NoTag, rows |-> Len(samples)])
    /\ UNCHANGED << envVars, now, serviceVars, thr, storeVars, stateVars >>

\* tag = self._find_tag(tag_name), which raises KeyError
WriteFind(c) ==
    /\ pc[c] = "wt_find"
    /\ IF loc[c].name \in NamesOf(tags)
       THEN CallerStep(c, "write_tag", "wt_find", "wt_write", "", "",
                       [loc[c] EXCEPT !.tag = _find_tag(loc[c].name)])
       ELSE CallerStep(c, "write_tag", "wt_find", "idle", "KeyError", "", 0)
    /\ UNCHANGED << envVars, now, serviceVars, thr, storeVars, stateVars >>

\* self.driver.write_tag(tag, value)
WriteDriver(c) ==
    /\ pc[c] = "wt_write"
    /\ \E r \in WriteTagOutcomes(loc[c].tag, loc[c].value) :
          /\ mem' = r.mem
          /\ IF r.ok
             THEN CallerStep(c, "write_tag", "wt_write", "wt_insert", "", "", loc[c])
             ELSE CallerStep(c, "write_tag", "wt_write", "idle", DriverError, "", 0)
    /\ UNCHANGED << SNAP7_AVAILABLE, now, serviceVars, thr, storeVars, stateVars >>

\* (mutant) the row takes the place of the earlier rows of its tag
insert_sample_replace(table, row) ==
    Append(SelectSeq(table, LAMBDA r : r.tag_name # row.tag_name), row)

\* WorkspaceStorage.insert_sample: INSERT INTO samples, one row
insert_sample(table, row) == Append(table, row)

\* ts = time.time(); self.storage.insert_sample(tag.name, float(value), ts),
\* which may raise
WriteInsert(c) ==
    /\ pc[c] = "wt_insert"
    /\ \E ts \in TimeReadings :
        /\ now' = ts
        /\ \/ /\ samples' = insert_sample(samples, [tag_name |-> loc[c].tag.name, ts |-> ts,
                                                     value |-> loc[c].value])
              /\ CallerStep(c, "write_tag", "wt_insert", "wt_publish", "", "", loc[c])
           \/ /\ samples' = samples
              /\ CallerStep(c, "write_tag", "wt_insert", "idle", "StorageError", "", 0)
    /\ UNCHANGED << envVars, serviceVars, thr, db_tags, txn, stateVars >>

\* with self.state.lock: self.state.latest_tags[tag.name] = float(value)
WritePublish(c) ==
    /\ CallerStep(c, "write_tag", "wt_publish", "idle", "ok", "", 0)
    /\ latest_tags' = DictSetItem(latest_tags, loc[c].tag.name, loc[c].value)
    /\ UNCHANGED << envVars, now, serviceVars, thr, storeVars, available_tags >>

\* ---------------------------------------------------- S7Service.read_once
\* read_once called by a caller: if not self.driver: raise RuntimeError
ReadCheck(c) ==
    /\ IF driver = 0
       THEN CallerStep(c, "read_once", "idle", "idle", "RuntimeError", "", 0)
       ELSE CallerStep(c, "read_once", "idle", "rd_iter", "", "", 0)
    /\ UNCHANGED << envVars, now, serviceVars, thr, storeVars, stateVars >>

\* values = {}; for tag in self.active_tags
ReadIter(c) ==
    /\ CallerStep(c, "read_once", "rd_iter", "rd_read", "", "",
                  [iter |-> active_tags, idx |-> 1, values |-> << >>])
    /\ UNCHANGED << envVars, now, serviceVars, thr, storeVars, stateVars >>

\* values[tag.name] = self.driver.read_tag(tag), or return values
ReadTag(c) ==
    /\ pc[c] = "rd_read"
    /\ IF loc[c].idx > Len(loc[c].iter)
       THEN CallerStep(c, "read_once", "rd_read", "idle", "ok", "", 0)
       ELSE LET tag == loc[c].iter[loc[c].idx] IN
            \E r \in ReadTagOutcomes(tag) :
                IF r.ok
                THEN CallerStep(c, "read_once", "rd_read", "rd_read", "", "",
                                [loc[c] EXCEPT !.idx = @ + 1,
                                               !.values = DictPut(@, tag.name, r.v)])
                ELSE CallerStep(c, "read_once", "rd_read", "idle", DriverError, "", 0)
    /\ UNCHANGED << envVars, now, serviceVars, thr, storeVars, stateVars >>

\* ------------------------------------- WorkspaceStorage.get_latest_values
\* the ids of the rows of a tag, and those among them with the greatest ts
RowsOf(n) == { i \in 1 .. Len(samples) : samples[i].tag_name = n }
\* (mutant) the row inserted last, whatever its ts
LatestRowsLastInserted(n) == { i \in RowsOf(n) : \A j \in RowsOf(n) : j <= i }

\* the rows of n that carry MAX(ts)
LatestRows(n) == { i \in RowsOf(n) : \A j \in RowsOf(n) : samples[j].ts <= samples[i].ts }

\* if tag_names: WHERE tag_name IN (...); an empty collection selects every tag
QueriedNames(tag_names) ==
    { n \in (IF tag_names = {} THEN Names \cup WriteNames ELSE tag_names) : RowsOf(n) # {} }

\* SELECT tag_name, value, MAX(ts) ... GROUP BY tag_name: every dict the query
\* may return.  The value comes with the row of the greatest ts; when several
\* rows of a tag share it, the database is free to take the value of any one.
get_latest_values(tag_names) ==
    { f \in [QueriedNames(tag_names) -> { samples[i].value : i \in 1 .. Len(samples) }] :
        \A n \in QueriedNames(tag_names) :
            \E i \in LatestRows(n) : f[n] = samples[i].value }

\* one caller that connects, starts polling, writes tags and reads them once,
\* and the poll loops.  The caller begins at most MaxWriteOps calls.
WriteBudget(c) == ops[c] < MaxWriteOps

WriteStep(c) ==
    \/ WriteBudget(c) /\ ConnectNew(c)
    \/ ConnectOpen(c)
    \/ WriteBudget(c) /\ StartCheck(c)
    \/ StartClear(c) \/ StartCreate(c) \/ StartRun(c)
    \/ WriteBudget(c) /\ WriteCheck(c)
    \/ WriteFind(c) \/ WriteDriver(c) \/ WriteInsert(c) \/ WritePublish(c)
    \/ WriteBudget(c) /\ ReadCheck(c)
    \/ ReadIter(c) \/ ReadTag(c)

NextWrite ==
    \/ \E t \in ThreadIds : PollStep(t)
    \/ WriteStep("ui")

SpecWrite == Init /\ [][NextWrite]_vars

\* one caller that connects, sets the catalog, also with names defined twice,
\* writes tags and reads them once.  The caller begins at most MaxCatalogOps calls.
CatalogBudget(c) == ops[c] < MaxCatalogOps

CatalogStep(c) ==
    \/ CatalogBudget(c) /\ ConnectNew(c)
    \/ ConnectOpen(c)
    \/ CatalogBudget(c) /\ SetTagsAssignAgain(c)
    \/ SetTagsActive(c) \/ SetTagsUpsert(c) \/ SetTagsReset(c)
    \/ CatalogBudget(c) /\ WriteCheck(c)
    \/ WriteFind(c) \/ WriteDriver(c) \/ WriteInsert(c) \/ WritePublish(c)
    \/ CatalogBudget(c) /\ ReadCheck(c)
    \/ ReadIter(c) \/ ReadTag(c)

NextCatalog == CatalogStep("ui")

SpecCatalog == Init /\ [][NextCatalog]_vars

\* ------------------------------------------------ WorkspaceStorage.get_series
\* WHERE tag_name = ? AND ts >= ?: the ids of the rows that qualify
Qualifying(tag_name, since_ts) ==
    { i \in 1 .. Len(samples) : samples[i].tag_name = tag_name /\ samples[i].ts >= since_ts }

RECURSIVE OrderByTsDescOldestFirst(_)
RECURSIVE OrderByTsDesc(_)

\* (mutant) rows of one ts come out with the smaller id first
OrderByTsDescOldestFirst(ids) ==
    IF ids = {} THEN << >>
    ELSE LET m == CHOOSE i \in ids : \A j \in ids :
                      samples[j].ts < samples[i].ts \/ (samples[j].ts = samples[i].ts /\ i <= j)
         IN << m >> \o OrderByTsDescOldestFirst(ids \ {m})

\* ORDER BY ts DESC, answered by walking idx_samples_tag_ts(tag_name, ts)
\* backwards: rows of one ts come out with the greater id first
OrderByTsDesc(ids) ==
    IF ids = {} THEN << >>
    ELSE LET m == CHOOSE i \in ids : \A j \in ids :
                      samples[j].ts < samples[i].ts \/ (samples[j].ts = samples[i].ts /\ j <= i)
         IN << m >> \o OrderByTsDesc(ids \ {m})

\* (mutant) the limit is applied after the reversal: the oldest rows are kept
LimitTail(seq, limit) ==
    IF limit >= Len(seq) THEN seq ELSE SubSeq(seq, Len(seq) - limit + 1, Len(seq))

\* LIMIT ?
Limit(seq, limit) == IF limit >= Len(seq) THEN seq ELSE SubSeq(seq, 1, limit)

\* reversed(rows)
Reversed(seq) == [i \in 1 .. Len(seq) |-> seq[Len(seq) + 1 - i]]

\* the ids of the rows get_series returns, in the order it returns them
SeriesIds(tag_name, since_ts, limit) ==
    Reversed(Limit(OrderByTsDesc(Qualifying(tag_name, since_ts)), limit))

\* [(row["ts"], row["value"]) for row in reversed(rows)]
get_series(tag_name, since_ts, limit) ==
    LET ids == SeriesIds(tag_name, since_ts, limit)
    IN [i \in 1 .. Len(ids) |-> << samples[ids[i]].ts, samples[ids[i]].value >>]

\* ------------------------------------------ the store, called directly
\* timestamps and limits handed to the store
StoreTs     == 0 .. MaxTs
StoreLimits == 0 .. MaxRows
\* the tag_names argument of get_latest_values: omitted, or a list
LatestArgs ==
    { [given |-> FALSE, names |-> {}] } \cup { [given |-> TRUE, names |-> S] : S \in SUBSET Names }

\* a workspace without tags and samples, and a service that is never used
InitStore ==
    /\ Init
    /\ ~SNAP7_AVAILABLE
    /\ tags = << >>

\* the caller is outside every service method and calls a query of the store:
\* what it asked and what it got is kept in its locals until it drops them
StoreCall(c, call) ==
    /\ pc[c] = "idle"
    /\ pc' = [pc EXCEPT ![c] = "st_result"]
    /\ loc' = [loc EXCEPT ![c] = call]
    /\ UNCHANGED << ret, quiet, prev, quietPrev, ops >>

\* the caller drops the result of its query
StoreDrop(c) ==
    /\ pc[c] = "st_result"
    /\ pc' = [pc EXCEPT ![c] = "idle"]
    /\ loc' = [loc EXCEPT ![c] = 0]
    /\ UNCHANGED << envVars, now, serviceVars, thr, storeVars, stateVars,
                    ret, quiet, prev, quietPrev, ops >>

\* insert_sample(tag_name, value, ts); every row is given a value of its own,
\* so that a value returned by a query tells which row it was taken from
StoreInsertSample(c) ==
    /\ pc[c] = "idle"
    /\ Len(samples) < MaxRows
    /\ \E n \in Names, ts \in StoreTs :
          samples' = Append(samples, [tag_name |-> n, ts |-> ts, value |-> Len(samples) + 1])
    /\ UNCHANGED << envVars, now, serviceVars, thr, db_tags, txn, stateVars,
                    pc, loc, ret, quiet, prev, quietPrev, ops >>

\* get_series(tag_name, since_ts, limit)
StoreGetSeries(c) ==
    /\ pc[c] = "idle"
    /\ \E n \in Names, since \in StoreTs, limit \in StoreLimits :
          \E ids \in { SeriesIds(n, since, limit) }, rows \in { get_series(n, since, limit) } :
              StoreCall(c, [op |-> "get_series", tag_name |-> n, since_ts |-> since,
                            limit |-> limit, ids |-> ids, result |-> rows])
    /\ UNCHANGED << envVars, now, serviceVars, thr, storeVars, stateVars >>

\* get_latest_values(tag_names); a list that is empty counts as omitted
StoreGetLatest(c) ==
    /\ pc[c] = "idle"
    /\ \E arg \in LatestArgs :
          \E f \in get_latest_values(IF arg.given THEN arg.names ELSE {}) :
              StoreCall(c, [op |-> "get_latest_values", arg |-> arg, result |-> f])
    /\ UNCHANGED << envVars, now, serviceVars, thr, storeVars, stateVars >>

StoreStep(c) ==
    \/ StoreInsertSample(c)
    \/ StoreGetSeries(c)
    \/ StoreGetLatest(c)
    \/ StoreDrop(c)

NextStore == StoreStep("ui")

SpecStore == InitStore /\ [][NextStore]_vars


\* -------------------- insert_samples, statement by statement, on one connection
\* the batches handed to insert_samples; insert_sample hands over one row
BatchInputs ==
    { << [tag_name |-> "a", ts |-> 0, value |-> 1] >>,
      << [tag_name |-> "a", ts |-> 0, value |-> 1], [tag_name |-> "b", ts |-> 0, value |-> 1] >> }

\* rows that the batches under way have still to insert
Pending == { << d, k >> \in Callers \X (1 .. 2) :
                 pc[d] = "bt_row" /\ Len(loc[d].ids) < k /\ k <= Len(loc[d].rows) }

\* with self.conn: self.conn.executemany(...) begins: the sqlite3 module opens a
\* transaction before the first INSERT unless the connection has one open
BatchBegin(c) ==
    /\ pc[c] = "idle"
    /\ \E rows \in BatchInputs :
          /\ Len(samples) + Cardinality(Pending) + Len(rows) <= MaxRows
          /\ loc' = [loc EXCEPT ![c] = [op |-> "insert_samples", rows |-> rows, ids |-> << >>]]
    /\ pc' = [pc EXCEPT ![c] = "bt_row"]
    /\ txn' = IF txn = -1 THEN Len(samples) ELSE txn
    /\ UNCHANGED << envVars, now, serviceVars, thr, db_tags, samples, stateVars,
                    ret, quiet, prev, quietPrev, ops >>

\* executemany runs the INSERT for the next row of the batch, which may raise;
\* a row inserted while no transaction is open is committed at once
BatchRow(c) ==
    /\ pc[c] = "bt_row"
    /\ Len(loc[c].ids) < Len(loc[c].rows)
    /\ \/ /\ samples' = Append(samples, loc[c].rows[Len(loc[c].ids) + 1])
          /\ loc' = [loc EXCEPT ![c].ids = Append(@, Len(samples) + 1)]
          /\ pc' = pc
       \/ /\ samples' = samples
          /\ loc' = loc
          /\ pc' = [pc EXCEPT ![c] = "bt_rollback"]
    /\ UNCHANGED << envVars, now, serviceVars, thr, db_tags, txn, stateVars,
                    ret, quiet, prev, quietPrev, ops >>

\* the with block ends without an exception: self.conn.commit()
BatchCommit(c) ==
    /\ pc[c] = "bt_row"
    /\ Len(loc[c].ids) = Len(loc[c].rows)
    /\ txn' = -1
    /\ pc' = [pc EXCEPT ![c] = "idle"]
    /\ loc' = [loc EXCEPT ![c] = 0]
    /\ UNCHANGED << envVars, now, serviceVars, thr, db_tags, samples, stateVars,
                    ret, quiet, prev, quietPrev, ops >>

\* the with block ends with an exception: self.conn.rollback() takes back every
\* row inserted since the open transaction began, whoever inserted it
BatchRollback(c) ==
    /\ pc[c] = "bt_rollback"
    /\ samples' = IF txn = -1 THEN samples ELSE SubSeq(samples, 1, txn)
    /\ txn' = -1
    /\ pc' = [pc EXCEPT ![c] = "idle"]
    /\ loc' = [loc EXCEPT ![c] = 0]
    /\ UNCHANGED << envVars, now, serviceVars, thr, db_tags, stateVars,
                    ret, quiet, prev, quietPrev, ops >>

\* two threads share the connection: each inserts batches and queries
BatchStep(c) ==
    \/ BatchBegin(c) \/ BatchRow(c) \/ BatchCommit(c) \/ BatchRollback(c)
    \/ StoreGetLatest(c) \/ StoreDrop(c)

NextBatch == \E c \in Callers : BatchStep(c)

SpecBatch == InitStore /\ [][NextBatch]_vars


\* ------------------------------------------- upsert_tags, called directly
\* TagSpec with all its fields; bit_index -1 stands for None
FullSpecs ==
    { [name |-> n, area |-> v.area, db |-> v.db, byte_index |-> v.byte_index,
       bit_index |-> v.bit_index, data_type |-> v.data_type] :
        n \in Names,
        v \in { [area |-> "DB", db |-> 1, byte_index |-> 0, bit_index |-> -1, data_type |-> "INT"],
                [area |-> "DB", db |-> 1, byte_index |-> 0, bit_index |-> 0, data_type |-> "INT"],
                [area |-> "M", db |-> 0, byte_index |-> 1, bit_index |-> 1, data_type |-> "BOOL"] } }

\* the lists of up to MaxSpecs specs handed to upsert_tags
SpecLists == UNION { [1 .. k -> FullSpecs] : k \in 0 .. MaxSpecs }

\* upsert_tags(specs); the caller keeps what it passed and what the tables
\* held before the call
StoreUpsertTags(c) ==
    /\ pc[c] = "idle"
    /\ \E lst \in SpecLists :
          /\ db_tags' = upsert_tags(db_tags, lst)
          /\ StoreCall(c, [op |-> "upsert_tags", specs |-> lst,
                           tags_before |-> db_tags, samples_before |-> samples])
    /\ UNCHANGED << envVars, now, serviceVars, thr, samples, txn, stateVars >>

\* the first sample of the workspace is inserted
StoreInsertFirst(c) == samples = << >> /\ StoreInsertSample(c)

TagsStep(c) == StoreUpsertTags(c) \/ StoreInsertFirst(c) \/ StoreDrop(c)

NextTags == TagsStep("ui")

SpecTags == InitStore /\ [][NextTags]_vars


\* ------------------------------ S7Driver.write_tag of a BOOL tag, byte by bit
\* the values of one byte, and bit k of byte b
Bytes == 0 .. 255
Bit(b, k) == (b \div 2^k) % 2

\* x & y and x | y on bytes; ~mask as far as a byte is concerned
BitAnd(x, y) ==
    LET b(k) == IF Bit(x, k) = 1 /\ Bit(y, k) = 1 THEN 2^k ELSE 0
    IN b(0) + b(1) + b(2) + b(3) + b(4) + b(5) + b(6) + b(7)
BitOr(x, y) ==
    LET b(k) == IF Bit(x, k) = 1 \/ Bit(y, k) = 1 THEN 2^k ELSE 0
    IN b(0) + b(1) + b(2) + b(3) + b(4) + b(5) + b(6) + b(7)
Invert(mask) == 255 - mask

\* bool(data[byte_index] & (1 << bit_index)); data is a sequence of bytes
_get_bool(data, byte_index, bit_index) == BitAnd(data[byte_index + 1], 2^bit_index) # 0

\* (mutant) the byte is set to the mask, or cleared
_set_bool_whole(data, byte_index, bit_index, value) ==
    [data EXCEPT ![byte_index + 1] = IF value THEN 2^bit_index ELSE 0]

\* data[byte_index] |= mask, or data[byte_index] &= ~mask
_set_bool(data, byte_index, bit_index, value) ==
    [data EXCEPT ![byte_index + 1] =
        IF value THEN BitOr(@, 2^bit_index) ELSE BitAnd(@, Invert(2^bit_index))]

\* a workspace without tags and samples, a driver whose session is open, the
\* controller memory m, and callers at positions p with locals l
InitWith(m, p, l) ==
    /\ SNAP7_AVAILABLE = TRUE
    /\ mem = m
    /\ now = 0
    /\ tags = << >>
    /\ active_tags = << >>
    /\ driver = 1
    /\ client = [d \in DriverIds |-> IF d = 1 THEN "open" ELSE "unborn"]
    /\ thread = 0
    /\ stop_event = FALSE
    /\ thr = [t \in ThreadIds |-> NoThread]
    /\ latest_tags = << >>
    /\ available_tags = << >>
    /\ db_tags = << >>
    /\ samples = << >>
    /\ txn = -1
    /\ pc = p
    /\ loc = l
    /\ ret = [c \in Callers |-> NoCall]
    /\ quiet = [c \in Callers |-> TRUE]
    /\ prev = [c \in Callers |-> "none"]
    /\ quietPrev = [c \in Callers |-> TRUE]
    /\ ops = [c \in Callers |-> 0]

\* the byte at address 0 is seeded, and caller ui is about to call
\* driver.write_tag(tag, value) for a BOOL tag at that byte
InitBits ==
    \E seed \in Bytes, k \in 0 .. 7, v \in WriteValues :
        InitWith([a \in Addrs |-> IF a = 0 THEN seed ELSE 0],
                 [c \in Callers |-> IF c = "ui" THEN "dw_read" ELSE "idle"],
                 [c \in Callers |->
                     IF c = "ui"
                     THEN [tag |-> [byte_index |-> 0, bit_index |-> k, data_type |-> "BOOL"],
                           value |-> v, seed |-> seed, data |-> << >>]
                     ELSE 0])

\* a step of driver.write_tag: the caller moves on with new locals
DriverStep(c, from, to, newloc) ==
    /\ pc[c] = from
    /\ pc' = [pc EXCEPT ![c] = to]
    /\ loc' = [loc EXCEPT ![c] = newloc]
    /\ UNCHANGED << SNAP7_AVAILABLE, now, serviceVars, thr, storeVars, stateVars,
                    ret, quiet, prev, quietPrev, ops >>

\* data = bytearray(self.client.read_area(area, tag.db, tag.byte_index, size)),
\* which may raise
BoolReadArea(c) ==
    /\ \/ DriverStep(c, "dw_read", "dw_set",
                     [loc[c] EXCEPT !.data = << mem[loc[c].tag.byte_index] >>])
       \/ DriverStep(c, "dw_read", "dw_failed", loc[c])
    /\ mem' = mem

\* _set_bool(data, 0, tag.bit_index or 0, bool(value))
BoolSet(c) ==
    /\ DriverStep(c, "dw_set", "dw_write",
                  [loc[c] EXCEPT !.data = _set_bool(@, 0, loc[c].tag.bit_index,
                                                    loc[c].value # 0)])
    /\ mem' = mem

\* self.client.write_area(area, tag.db, tag.byte_index, data), which may raise
BoolWriteArea(c) ==
    \/ /\ DriverStep(c, "dw_write", "dw_done", loc[c])
       /\ mem' = [mem EXCEPT ![loc[c].tag.byte_index] = loc[c].data[1]]
    \/ /\ DriverStep(c, "dw_write", "dw_failed", loc[c])
       /\ mem' = mem

\* driver.read_tag(tag) after the write: _decode_value gives _get_bool(data, 0, bit)
BoolReadBack(c) ==
    /\ DriverStep(c, "dw_done", "dw_back",
                  [loc[c] EXCEPT !.data = << mem[loc[c].tag.byte_index] >>])
    /\ mem' = mem

BitsStep(c) == BoolReadArea(c) \/ BoolSet(c) \/ BoolWriteArea(c) \/ BoolReadBack(c)

NextBits == BitsStep("ui")

SpecBits == InitBits /\ [][NextBits]_vars


\* ------------------------------------------ _encode_value and _decode_value
\* struct.pack(">H" / ">I" / ">h" / ">i", v): the n bytes of v, most
\* significant first, a negative v in two's complement
\* (mutant) the least significant byte comes first
PackIntLittle(v, n) == [i \in 1 .. n |-> (v \div 256^(i - 1)) % 256]

PackInt(v, n) == [i \in 1 .. n |-> (v \div 256^(n - i)) % 256]

\* struct.unpack(">H" / ">I", data)[0]
UnpackUnsigned(data) ==
    IF Len(data) = 2 THEN data[1] * 256 + data[2]
    ELSE data[1] * 16777216 + data[2] * 65536 + data[3] * 256 + data[4]

\* struct.unpack(">h" / ">i", data)[0]
UnpackSigned(data) ==
    LET top == IF data[1] >= 128 THEN data[1] - 256 ELSE data[1]
    IN IF Len(data) = 2 THEN top * 256 + data[2]
       ELSE top * 16777216 + data[2] * 65536 + data[3] * 256 + data[4]

\* struct.pack(">f", v) of a float that is a Float32: sign, 8 bits of
\* exponent, 23 bits of fraction
PackReal(v) ==
    << v.sign * 128 + v.exponent \div 2,
       (v.exponent % 2) * 128 + v.fraction \div 65536,
       (v.fraction \div 256) % 256,
       v.fraction % 256 >>

\* struct.unpack(">f", data)[0]
UnpackReal(data) ==
    [sign     |-> data[1] \div 128,
     exponent |-> (data[1] % 128) * 2 + data[2] \div 128,
     fraction |-> (data[2] % 128) * 65536 + data[3] * 256 + data[4]]

\* the values of every data type that are encoded: all of BOOL and BYTE, the
\* ends and the byte borders of the integer types (DWORD as far as 2^31 - 1),
\* and Float32 values by sign, exponent and fraction (no NaN)
CodecValues(dtype) ==
    CASE dtype = "BOOL"  -> BOOLEAN
      [] dtype = "BYTE"  -> Bytes
      [] dtype = "WORD"  -> {0, 1, 255, 256, 32768, 65535}
      [] dtype = "DWORD" -> {0, 1, 65535, 65536, 16777216, 2147483647}
      [] dtype = "INT"   -> {-32768, -32767, -256, -1, 0, 1, 255, 256, 32767}
      [] dtype = "DINT"  -> {-2147483647 - 1, -65536, -1, 0, 1, 65536, 2147483647}
      [] dtype = "REAL"  -> [sign : {0, 1}, exponent : {0, 1, 127, 254},
                             fraction : {0, 1, 4194304, 8388607}]

DataTypes == {"BOOL", "BYTE", "WORD", "DWORD", "INT", "DINT", "REAL"}

\* _encode_value(tag, value): the bytes, or the exception it raises; the
\* branches under snap7_util write the same bytes
_encode_value(tag, value) ==
    CASE tag.data_type = "BYTE"  -> [ok |-> TRUE, data |-> << value >>, error |-> ""]
      [] tag.data_type = "WORD"  -> [ok |-> TRUE, data |-> PackInt(value, 2), error |-> ""]
      [] tag.data_type = "DWORD" -> [ok |-> TRUE, data |-> PackInt(value, 4), error |-> ""]
      [] tag.data_type = "INT"   -> [ok |-> TRUE, data |-> PackInt(value, 2), error |-> ""]
      [] tag.data_type = "DINT"  -> [ok |-> TRUE, data |-> PackInt(value, 4), error |-> ""]
      [] tag.data_type = "REAL"  -> [ok |-> TRUE, data |-> PackReal(value), error |-> ""]
      [] OTHER                   -> [ok |-> FALSE, data |-> << >>, error |-> "ValueError"]

\* _decode_value(tag, data)
_decode_value(tag, data) ==
    CASE tag.data_type = "BOOL"  -> _get_bool(data, 0, tag.bit_index)
      [] tag.data_type = "BYTE"  -> data[1]
      [] tag.data_type = "WORD"  -> UnpackUnsigned(data)
      [] tag.data_type = "DWORD" -> UnpackUnsigned(data)
      [] tag.data_type = "INT"   -> UnpackSigned(data)
      [] tag.data_type = "DINT"  -> UnpackSigned(data)
      [] tag.data_type = "REAL"  -> UnpackReal(data)

\* caller ui holds a tag of some data type and a value of its range
InitCodec ==
    \E dtype \in DataTypes, k \in 0 .. 7 :
        \E v \in CodecValues(dtype) :
            /\ dtype # "BOOL" => k = 0
            /\ InitWith([a \in Addrs |-> 0],
                        [c \in Callers |-> IF c = "ui" THEN "cd_encode" ELSE "idle"],
                        [c \in Callers |->
                            IF c = "ui"
                            THEN [tag |-> [byte_index |-> 0, bit_index |-> k, data_type |-> dtype],
                                  value |-> v, data |-> << >>, error |-> ""]
                            ELSE 0])

\* data = _encode_value(tag, value), which may raise
CodecEncode(c) ==
    /\ pc[c] = "cd_encode"
    /\ LET e == _encode_value(loc[c].tag, loc[c].value)
       IN IF e.ok
          THEN DriverStep(c, "cd_encode", "cd_decode", [loc[c] EXCEPT !.data = e.data])
          ELSE DriverStep(c, "cd_encode", "cd_raised", [loc[c] EXCEPT !.error = e.error])
    /\ mem' = mem

\* _decode_value(tag, data); the caller keeps what it got in place of the bytes
CodecDecode(c) ==
    /\ DriverStep(c, "cd_decode", "cd_done",
                  [loc[c] EXCEPT !.data = _decode_value(loc[c].tag, loc[c].data)])
    /\ mem' = mem

NextCodec == CodecEncode("ui") \/ CodecDecode("ui")

SpecCodec == InitCodec /\ [][NextCodec]_vars


\* ------------------------------------- _decode_value on data of any length
\* TagSpec.size(); 0 stands for the KeyError of a type that is not in the table
size(dtype) ==
    CASE dtype \in {"BOOL", "BYTE"} -> 1
      [] dtype \in {"WORD", "INT"} -> 2
      [] dtype \in {"DWORD", "DINT", "REAL"} -> 4
      [] OTHER -> 0

\* byte strings of up to MaxData bytes
DataInputs == UNION { [1 .. n -> {1, 127}] : n \in 0 .. MaxData }

Raised(e) == [ok |-> FALSE, value |-> 0, error |-> e]

\* _decode_value(tag, data): what it returns or raises.  BOOL and BYTE index
\* data[0]; the other types hand data to struct.unpack, which raises unless
\* the length is the size of the format, or, under snap7_util, to the getters
\* of the snap7 library, which read the leading bytes
DecodeOutcomes(tag, data) ==
    LET dt == tag.data_type
        lead == SubSeq(data, 1, size(dt))
    IN IF dt \in {"BOOL", "BYTE"}
       THEN IF Len(data) = 0 THEN { Raised("IndexError") }
            ELSE { [ok |-> TRUE, value |-> _decode_value(tag, data), error |-> ""] }
       ELSE IF dt \notin DataTypes THEN { Raised("ValueError") }
       ELSE IF Len(data) = size(dt)
            THEN { [ok |-> TRUE, value |-> _decode_value(tag, data), error |-> ""] }
       ELSE IF Len(data) < size(dt) THEN { Raised("struct.error") }
       ELSE { Raised("struct.error"),
              [ok |-> TRUE, value |-> _decode_value(tag, lead), error |-> ""] }

\* caller ui holds a tag of some data type, one of them unknown, and bytes
InitDecode ==
    \E dtype \in DataTypes \cup {"STRING"}, data \in DataInputs :
        InitWith([a \in Addrs |-> 0],
                 [c \in Callers |-> IF c = "ui" THEN "dc_call" ELSE "idle"],
                 [c \in Callers |->
                     IF c = "ui"
                     THEN [tag |-> [byte_index |-> 0, bit_index |-> 0, data_type |-> dtype],
                           data |-> data, out |-> Raised("")]
                     ELSE 0])

\* _decode_value(tag, data) returns or raises
DecodeCall(c) ==
    /\ pc[c] = "dc_call"
    /\ \E o \in DecodeOutcomes(loc[c].tag, loc[c].data) :
          DriverStep(c, "dc_call", "dc_done", [loc[c] EXCEPT !.out = o])
    /\ mem' = mem

NextDecode == DecodeCall("ui")

SpecDecode == InitDecode /\ [][NextDecode]_vars

\* ------------------------------------------------------- AppState.lock
\* The with-blocks on self.state.lock, entered and left in steps of their own.
\* A thread or a caller holds the lock while it is at a position inside a
\* with-block; it enters when nobody holds the lock (threading.Lock).
MaxLockOps == 1
MaxReads   == 1

\* (mutant) the with-block of the poll loop begins before insert_samples
LockedPcsFromInsert ==
    { "insert", "publish_locked", "rt_locked", "wt_publish_locked", "sa_reset_locked",
      "st_reset_locked", "gt_locked" }

\* the positions inside a with self.state.lock (or with self.lock) block
LockedPcs ==
    { "publish_locked", "rt_locked", "wt_publish_locked", "sa_reset_locked",
      "st_reset_locked", "gt_locked" }

ThreadHolds(t) == thr[t].pc \in LockedPcs
CallerHolds(c) == pc[c] \in LockedPcs

\* threading.Lock.locked()
locked == (\E t \in ThreadIds : ThreadHolds(t)) \/ (\E c \in Callers : CallerHolds(c))

\* _poll_loop: with self.state.lock, entered
LockPollEnter(t) ==
    /\ thr[t].pc = "publish"
    /\ ~locked
    /\ thr' = [thr EXCEPT ![t].pc = "publish_locked"]
    /\ UNCHANGED << envVars, now, serviceVars, storeVars, stateVars, callerVars >>

\* self.state.latest_tags.update(...), and the with-block is left
LockPollPublish(t) ==
    /\ thr[t].pc = "publish_locked"
    /\ latest_tags' = DictUpdate(latest_tags, AsDict(thr[t].values))
    /\ thr' = [thr EXCEPT ![t].pc = "refresh"]
    /\ UNCHANGED << envVars, now, serviceVars, storeVars, available_tags, callerVars >>

\* self.storage.list_tags(), the argument of refresh_tags, which may raise;
\* the list is kept in the thread's locals until refresh_tags assigns it
LockPollListTags(t) ==
    /\ thr[t].pc = "refresh"
    /\ \/ thr' = [thr EXCEPT ![t] = [pc |-> "rt_enter", iter |-> list_tags,
                                     idx |-> 0, values |-> << >>]]
       \/ thr' = [thr EXCEPT ![t] = PollExcept(t)]
    /\ UNCHANGED << envVars, now, serviceVars, storeVars, stateVars, callerVars >>

\* AppState.refresh_tags: with self.lock, entered
LockRefreshEnter(t) ==
    /\ thr[t].pc = "rt_enter"
    /\ ~locked
    /\ thr' = [thr EXCEPT ![t].pc = "rt_locked"]
    /\ UNCHANGED << envVars, now, serviceVars, storeVars, stateVars, callerVars >>

\* self.available_tags = tags, and the with-block is left
LockRefreshAssign(t) ==
    /\ thr[t].pc = "rt_locked"
    /\ available_tags' = thr[t].iter
    /\ thr' = [thr EXCEPT ![t] = CycleDone(t)]
    /\ UNCHANGED << envVars, now, serviceVars, storeVars, latest_tags, callerVars >>

\* a with-block of a service method, entered by caller c
LockCallerEnter(c, op, at, inside) ==
    /\ pc[c] = at
    /\ ~locked
    /\ CallerStep(c, op, at, inside, "", "", loc[c])
    /\ UNCHANGED << envVars, now, serviceVars, thr, storeVars, stateVars >>

\* write_tag: self.state.latest_tags[tag.name] = float(value), and the
\* with-block is left
LockWritePublish(c) ==
    /\ pc[c] = "wt_publish_locked"
    /\ CallerStep(c, "write_tag", "wt_publish_locked", "idle", "ok", "", 0)
    /\ latest_tags' = DictSetItem(latest_tags, loc[c].tag.name, loc[c].value)
    /\ UNCHANGED << envVars, now, serviceVars, thr, storeVars, available_tags >>

\* set_active_tags: self.state.latest_tags = {...}, and the with-block is left
LockSetActiveReset(c) ==
    /\ CallerStep(c, "set_active_tags", "sa_reset_locked", "idle", "ok", "", 0)
    /\ latest_tags' = ResetDict(active_tags)
    /\ UNCHANGED << envVars, now, serviceVars, thr, storeVars, available_tags >>

\* set_tags: self.state.latest_tags = {...}, and the with-block is left
LockSetTagsReset(c) ==
    /\ CallerStep(c, "set_tags", "st_reset_locked", "idle", "ok", "", 0)
    /\ latest_tags' = ResetDict(tags)
    /\ UNCHANGED << envVars, now, serviceVars, thr, storeVars, available_tags >>

\* AppState.get_tags, called
GetTagsCall(c) ==
    /\ CallerStep(c, "get_tags", "idle", "gt_enter", "", "", 0)
    /\ UNCHANGED << envVars, now, serviceVars, thr, storeVars, stateVars >>

\* return sorted(self.available_tags), and the with-block is left
GetTagsReturn(c) ==
    /\ CallerStep(c, "get_tags", "gt_locked", "idle", "ok", "", 0)
    /\ UNCHANGED << envVars, now, serviceVars, thr, storeVars, stateVars >>

LockPollStep(t) ==
    \/ PollWhile(t) \/ PollReadCheck(t) \/ PollReadIter(t) \/ PollReadTag(t)
    \/ PollInsert(t)
    \/ LockPollEnter(t) \/ LockPollPublish(t)
    \/ LockPollListTags(t) \/ LockRefreshEnter(t) \/ LockRefreshAssign(t)
    \/ PollSleep(t)

LockBudget(c) == ops[c] < MaxLockOps

\* the service's caller: write_tag, set_active_tags and set_tags
LockServiceStep(c) ==
    \/ LockBudget(c) /\ WriteCheck(c)
    \/ WriteFind(c) \/ WriteDriver(c) \/ WriteInsert(c)
    \/ LockCallerEnter(c, "write_tag", "wt_publish", "wt_publish_locked")
    \/ LockWritePublish(c)
    \/ LockBudget(c) /\ SetActiveAssign(c)
    \/ LockCallerEnter(c, "set_active_tags", "sa_reset", "sa_reset_locked")
    \/ LockSetActiveReset(c)
    \/ LockBudget(c) /\ SetTagsAssign(c)
    \/ SetTagsActive(c) \/ SetTagsUpsert(c)
    \/ LockCallerEnter(c, "set_tags", "st_reset", "st_reset_locked")
    \/ LockSetTagsReset(c)

\* a reader of the snapshot (a widget, the tag list of the user interface)
LockReaderStep(c) ==
    \/ ops[c] < MaxReads /\ GetTagsCall(c)
    \/ LockCallerEnter(c, "get_tags", "gt_enter", "gt_locked")
    \/ GetTagsReturn(c)

NextLock ==
    \/ \E t \in ThreadIds : LockPollStep(t)
    \/ LockServiceStep("ui")
    \/ LockReaderStep("aux")

\* the service constructed with two tags, connected, and its poll loop started
InitLock ==
    /\ SNAP7_AVAILABLE = TRUE
    /\ mem = [a \in Addrs |-> 1 - a]
    /\ now = 0
    /\ tags = <<TagSpec("a", 0), TagSpec("b", 1)>>
    /\ active_tags = tags
    /\ driver = 1
    /\ client = [d \in DriverIds |-> IF d = 1 THEN "open" ELSE "unborn"]
    /\ thread = 1
    /\ stop_event = FALSE
    /\ thr = [t \in ThreadIds |-> IF t = 1 THEN [pc |-> "while"] @@ NoLocals ELSE NoThread]
    /\ latest_tags = << >>
    /\ available_tags = << >>
    /\ db_tags = upsert_tags(<< >>, tags)
    /\ samples = << >>
    /\ txn = -1
    /\ pc = [c \in Callers |-> "idle"]
    /\ loc = [c \in Callers |-> 0]
    /\ ret = [c \in Callers |-> NoCall]
    /\ quiet = [c \in Callers |-> TRUE]
    /\ prev = [c \in Callers |-> "none"]
    /\ quietPrev = [c \in Callers |-> TRUE]
    /\ ops = [c \in Callers |-> 0]

SpecLock == InitLock /\ [][NextLock]_vars

\* ------------------------- S7Driver.write_tag of BOOL tags, two writers
\* seeds of the shared byte
RmwSeeds == {0, 255}

\* the byte at address 0 is seeded; caller ui is about to call
\* driver.write_tag for a BOOL tag at bit k of that byte, and at the same time
\* either caller aux does so for another bit j of it (position "dw_read"), or
\* the controller's own program is about to change bit j (position "plc")
InitRmw ==
    \E seed \in RmwSeeds, k \in 0 .. 7, j \in 0 .. 7, v \in WriteValues, w \in WriteValues,
       other \in {"dw_read", "plc"} :
        /\ j # k
        /\ InitWith([a \in Addrs |-> IF a = 0 THEN seed ELSE 0],
                    [c \in Callers |-> IF c = "ui" THEN "dw_read" ELSE other],
                    [c \in Callers |->
                        [tag |-> [byte_index |-> 0, bit_index |-> IF c = "ui" THEN k ELSE j,
                                  data_type |-> "BOOL"],
                         value |-> IF c = "ui" THEN v ELSE w, seed |-> seed, data |-> << >>]])

\* the controller's program sets or clears its bit, in one step of its own
ControllerSet(c) ==
    /\ DriverStep(c, "plc", "dw_done", loc[c])
    /\ mem' = [mem EXCEPT ![loc[c].tag.byte_index] =
                  _set_bool(<< @ >>, 0, loc[c].tag.bit_index, loc[c].value # 0)[1]]

RmwStep(c) == BoolReadArea(c) \/ BoolSet(c) \/ BoolWriteArea(c)

NextRmw ==
    \/ \E c \in Callers : RmwStep(c)
    \/ ControllerSet("aux")

SpecRmw == InitRmw /\ [][NextRmw]_vars

\* ---------------------------------------------------------------- claims
\* caller c is outside every method and its last call was op
Returned(c, op) == pc[c] = "idle" /\ ret[c].op = op

\* the names of the rows that a step appended to the samples table
AppendedNames == { samples'[i].tag_name : i \in Len(samples) + 1 .. Len(samples') }

\* C1: in a poll cycle on an open session, a tag whose read fails is the only
\* one skipped: a cycle that has read a tag successfully is not abandoned, it
\* goes on to the next tag and to the append of its batch.
C1_FailedReadSkipsOnlyThatTag ==
    [][\A t \in ThreadIds :
          (thr[t].pc = "ro_read" /\ thr[t].values # << >> /\ Connected)
              => thr'[t].pc \in {"ro_read", "insert"}]_vars

\* C2: a poll cycle takes the ActiveSet that is current when it begins to
\* iterate, and the batch it appends holds exactly the names of that ActiveSet,
\* each with the value read at an address of that ActiveSet, whatever
\* set_active_tags or set_tags did to the ActiveSet in the meantime.
C2_ActiveSetIsolation ==
    [][\A t \in ThreadIds :
          /\ (thr[t].pc = "ro_iter" /\ thr'[t].pc = "ro_read")
                 => thr'[t].iter = active_tags
          /\ (thr[t].pc = "insert" /\ thr'[t].pc = "publish")
                 => /\ AppendedNames = NamesOf(thr[t].iter)
                    /\ Len(samples') - Len(samples) = Cardinality(NamesOf(thr[t].iter))
                    /\ \A i \in Len(samples) + 1 .. Len(samples') :
                          \E k \in 1 .. Len(thr[t].iter) :
                              /\ samples'[i].tag_name = thr[t].iter[k].name
                              /\ samples'[i].value = mem[thr[t].iter[k].byte_index]]_vars

\* C2 witness: a cycle has appended its batch after the ActiveSet was replaced
\* by one with other names while the cycle was reading.
C2_Witness ==
    \E t \in ThreadIds :
        /\ thr[t].pc = "publish"
        /\ thr[t].values # << >>
        /\ NamesOf(thr[t].iter) # NamesOf(active_tags)

\* C3: at most one poll loop is running in every reachable state.
C3_AtMostOneLoop == Cardinality(AliveThreads) <= 1

\* C4: when a caller has called start_polling twice in a row, nobody else
\* having called anything since the first of the two calls began, the second
\* call did nothing and exactly one poll loop is running.
C4_SecondStartIsNoop ==
    \A c \in Callers :
        (Returned(c, "start_polling") /\ prev[c] = "start_polling" /\ quietPrev[c])
            => ret[c].res = "noop" /\ Cardinality(AliveThreads) = 1

\* C5: once stop_polling has returned, and nobody else has called anything
\* meanwhile, no poll loop is running any more.
C5_StopReturnsAfterLoopExit ==
    \A c \in Callers :
        (Returned(c, "stop_polling") /\ ret[c].res = "ok" /\ quiet[c])
            => AliveThreads = {}

\* C6: once start_polling has returned normally on a connected service, and
\* nobody else has called anything meanwhile, the service is Polling: the
\* stop flag is clear and the service's thread is alive.
C6_StartLeavesPolling ==
    \A c \in Callers :
        (Returned(c, "start_polling") /\ ret[c].res \in {"noop", "started"}
            /\ ret[c].pre = "open" /\ quiet[c])
            => ~stop_event /\ thread # 0 /\ IsAlive(thread)

\* C7: a start_polling call made while the service holds no driver fails with
\* NotConnected at once and creates no thread.
C7_StartRequiresConnection ==
    \A c \in Callers :
        (ret[c].op = "start_polling" /\ ret[c].pre = "nodriver")
            => pc[c] = "idle" /\ ret[c].res = "NotConnected"

\* C8: an error raised inside a poll cycle never ends the poll loop: a cycle
\* ends in the loop's sleep, and a poll thread ends only in a step that finds
\* the stop flag set.
C8_LoopEndsOnlyOnStop ==
    [][\A t \in ThreadIds :
          /\ (InCycle(t) /\ thr'[t].pc \notin {"ro_check", "ro_iter", "ro_read",
                                                "insert", "publish", "refresh"})
                 => thr'[t].pc = "sleep"
          /\ (IsAlive(t) /\ thr'[t].pc = "dead") => stop_event]_vars

\* C8 witness: the service was connected and then polling was started, with a
\* non-empty ActiveSet all along; a cycle has ended without a row appended,
\* that is by an error, and the loop is alive in its sleep, the stop flag clear.
C8_Witness ==
    \E t \in ThreadIds :
        /\ thr[t].pc = "sleep"
        /\ ~stop_event
        /\ samples = << >>
        /\ active_tags # << >>
        /\ Connected
        /\ ops["ui"] = 2 /\ prev["ui"] = "connect" /\ Returned("ui", "start_polling")

\* C9: once a connect call has failed, and nobody else has called anything
\* meanwhile, the service holds no driver.
C9_FailedConnectLeavesDisconnected ==
    \A c \in Callers :
        (Returned(c, "connect") /\ ret[c].res = "ConnectionError" /\ quiet[c])
            => driver = 0

\* C10: at most one controller session is open in every reachable state.
C10_AtMostOneSession == OpenSessions <= 1

\* C11: once disconnect has returned, and nobody else has called anything
\* meanwhile, it has raised nothing, the service holds no driver and no poll
\* loop is running; this holds for a second disconnect in a row as well.
C11_DisconnectLeavesDisconnected ==
    \A c \in Callers :
        (Returned(c, "disconnect") /\ quiet[c])
            => ret[c].res = "ok" /\ driver = 0 /\ AliveThreads = {}

\* a poll thread is inside the for loop of read_once with tags still to read
MidRead(t) == thr[t].pc = "ro_read" /\ thr[t].idx <= Len(thr[t].iter)

\* C12: the step of disconnect that calls the driver's disconnect on an open
\* session, and the step that clears the service's driver handle, are never taken while a poll
\* cycle is in the middle of reading its tags.
C12_CloseOnlyAfterLoopExit ==
    [][((\E c \in Callers : pc[c] = "dc_close" /\ pc'[c] # "dc_close" /\ Connected)
          \/ (driver # 0 /\ driver' = 0))
        => \A t \in ThreadIds : ~MidRead(t)]_vars

\* caller c takes a step of the write_tag call it is in, or begins one
InWrite(c) == pc[c] \in {"wt_find", "wt_write", "wt_insert", "wt_publish"}
BeginsWrite(c) == pc[c] = "idle" /\ ops'[c] # ops[c] /\ ret'[c].op = "write_tag"
WriteStepOf(c) == (InWrite(c) /\ pc'[c] # pc[c]) \/ BeginsWrite(c)

\* C13: a write_tag call returns normally only from its last statement, having
\* gone through the driver write (the tag's address then holds the value, the
\* store and the LiveSnapshot are untouched), then the append of exactly one
\* row (name, the clock's reading, value), then the update of the LiveSnapshot
\* entry of that name, every other entry kept; no step of the call changes the
\* ActiveSet.
C13_WriteTagEffect ==
    [][\A c \in Callers :
          /\ (pc[c] = "wt_write" /\ pc'[c] = "wt_insert")
                 => /\ mem' = [mem EXCEPT ![loc[c].tag.byte_index] = loc[c].value]
                    /\ samples' = samples /\ latest_tags' = latest_tags
          /\ (pc[c] = "wt_insert" /\ pc'[c] = "wt_publish")
                 => /\ samples' = Append(samples, [tag_name |-> loc[c].name, ts |-> now',
                                                   value |-> loc[c].value])
                    /\ now' >= now
                    /\ mem' = mem /\ latest_tags' = latest_tags
          /\ (pc[c] = "wt_publish" /\ pc'[c] # "wt_publish")
                 => /\ ret'[c].res = "ok"
                    /\ DOMAIN latest_tags' = DOMAIN latest_tags \cup {loc[c].name}
                    /\ latest_tags'[loc[c].name] = loc[c].value
                    /\ \A n \in DOMAIN latest_tags \ {loc[c].name} :
                          latest_tags'[n] = latest_tags[n]
                    /\ mem' = mem /\ samples' = samples
                    /\ mem[loc[c].tag.byte_index] = loc[c].value
                    /\ \E i \in loc[c].rows + 1 .. Len(samples) :
                          /\ samples[i].tag_name = loc[c].name
                          /\ samples[i].value = loc[c].value
          /\ (WriteStepOf(c) /\ ret'[c].res = "ok") => pc[c] = "wt_publish"
          /\ WriteStepOf(c) => active_tags' = active_tags]_vars

\* C13 witness: a write_tag call has returned normally and the LiveSnapshot
\* holds the written entry next to an entry of another tag.
C13_Witness ==
    /\ Returned("ui", "write_tag") /\ ret["ui"].res = "ok"
    /\ Cardinality(DOMAIN latest_tags) = 2
    /\ samples # << >>

C15_WriteThenLatest ==
    [][\A c \in Callers : \A n \in WriteNames, v \in WriteValues :
          (/\ pc[c] = "wt_publish" /\ pc'[c] = "idle"
           /\ loc[c].name = n /\ loc[c].value = v
           /\ AliveThreads = {})
              => /\ Len(samples') = loc[c].rows + 1
                 /\ get_latest_values({n})' = { [m \in {n} |-> v] }]_vars

\* caller c takes a step of the read_once call it is in, or begins one
BeginsRead(c) == pc[c] = "idle" /\ ops'[c] # ops[c] /\ ret'[c].op = "read_once"
ReadStepOf(c) ==
    \/ pc[c] \in {"rd_iter", "rd_read"} /\ (pc'[c] # pc[c] \/ loc'[c] # loc[c])
    \/ BeginsRead(c)

\* C16: a read_once call that returns normally returns one value for every
\* name of the ActiveSet, the value the controller holds at the tag's address;
\* a call that returns while the service has no open driver session has
\* failed; no step of the call changes the tags table, the samples or the
\* LiveSnapshot.
C16_ReadOnceEffect ==
    [][\A c \in Callers :
          /\ (ReadStepOf(c) /\ pc'[c] = "idle" /\ ret'[c].res = "ok")
                 => /\ loc[c].iter = active_tags
                    /\ { loc[c].values[i][1] : i \in 1 .. Len(loc[c].values) }
                          = NamesOf(active_tags)
                    /\ \A i \in 1 .. Len(loc[c].values) :
                          \E k \in 1 .. Len(active_tags) :
                              /\ active_tags[k].name = loc[c].values[i][1]
                              /\ mem[active_tags[k].byte_index] = loc[c].values[i][2]
          /\ (ReadStepOf(c) /\ pc'[c] = "idle" /\ ~Connected)
                 => ret'[c].res \in {"RuntimeError", "DriverError"}
          /\ ReadStepOf(c)
                 => /\ db_tags' = db_tags /\ samples' = samples
                    /\ latest_tags' = latest_tags]_vars

\* the names a poll thread has read in its cycle
ReadNames(t) == { thr[t].values[k][1] : k \in 1 .. Len(thr[t].values) }

\* C17: a poll cycle whose reads succeeded goes on to one insert_samples call,
\* which either raises and ends the cycle with nothing appended, or appends
\* after the rows already stored exactly one row per tag read, with that tag's
\* value and all with one and the same clock reading, the LiveSnapshot being
\* untouched so far; only then, and in one step, the LiveSnapshot entries of
\* exactly the tags read are set to the values of those rows, the other
\* entries and the store being left alone.
C17_BatchThenSnapshot ==
    [][\A t \in ThreadIds :
          /\ (thr[t].pc = "ro_read" /\ thr'[t].pc \notin {"ro_read", "sleep"})
                 => thr'[t].pc = "insert" /\ ReadNames(t) = NamesOf(thr[t].iter)
          /\ (thr[t].pc = "insert" /\ thr'[t].pc # "insert")
                 => /\ latest_tags' = latest_tags
                    /\ thr'[t].pc = "sleep" => samples' = samples
                    /\ thr'[t].pc # "sleep" =>
                          /\ thr'[t].pc = "publish"
                          /\ SubSeq(samples', 1, Len(samples)) = samples
                          /\ Len(samples') = Len(samples) + Cardinality(ReadNames(t))
                          /\ \A i \in Len(samples) + 1 .. Len(samples') :
                                /\ samples'[i].ts = now'
                                /\ \E k \in 1 .. Len(thr[t].values) :
                                      thr[t].values[k] = << samples'[i].tag_name, samples'[i].value >>
                          /\ AppendedNames = ReadNames(t)
          /\ (thr[t].pc # "publish" /\ thr'[t].pc = "publish") => thr[t].pc = "insert"
          /\ (thr[t].pc = "publish" /\ thr'[t].pc # "publish")
                 => /\ samples' = samples
                    /\ DOMAIN latest_tags' = DOMAIN latest_tags \cup ReadNames(t)
                    /\ \A k \in 1 .. Len(thr[t].values) :
                          latest_tags'[thr[t].values[k][1]] = thr[t].values[k][2]
                    /\ \A n \in DOMAIN latest_tags \ ReadNames(t) :
                          latest_tags'[n] = latest_tags[n]
                    /\ \A k \in 1 .. Len(thr[t].values) :
                          \E i \in 1 .. Len(samples) :
                              thr[t].values[k] = << samples[i].tag_name, samples[i].value >>]_vars

\* C17 witness: a cycle that read two tags has appended its two rows and has
\* updated the LiveSnapshot, which was reset to another set of names while the
\* cycle was reading.
C17_Witness ==
    \E t \in ThreadIds :
        /\ thr[t].pc = "refresh"
        /\ Len(thr[t].values) = 2
        /\ Len(samples) = 2 /\ samples[1].ts = samples[2].ts
        /\ NamesOf(active_tags) # ReadNames(t)
        /\ \A k \in 1 .. 2 : latest_tags[thr[t].values[k][1]] = thr[t].values[k][2]

\* C18: the LiveSnapshot changes only in whole steps taken under the state
\* lock, so every state a reader can copy is the outcome of a whole update:
\* a poll cycle's update, after which all the values of the cycle are in the
\* LiveSnapshot; the update of write_tag, after which the written value is;
\* or a reset by set_tags or set_active_tags.  An update leaves the entries
\* of the other tags as they were.
C18_NoHalfUpdate ==
    [][latest_tags' # latest_tags =>
          \/ \E t \in ThreadIds :
                /\ thr[t].pc = "publish" /\ thr'[t].pc = "refresh"
                /\ DOMAIN latest_tags' = DOMAIN latest_tags \cup ReadNames(t)
                /\ \A k \in 1 .. Len(thr[t].values) :
                      latest_tags'[thr[t].values[k][1]] = thr[t].values[k][2]
                /\ \A n \in DOMAIN latest_tags \ ReadNames(t) :
                      latest_tags'[n] = latest_tags[n]
          \/ \E c \in Callers :
                /\ pc[c] = "wt_publish" /\ pc'[c] = "idle"
                /\ DOMAIN latest_tags' = DOMAIN latest_tags \cup {loc[c].name}
                /\ latest_tags'[loc[c].name] = loc[c].value
                /\ \A n \in DOMAIN latest_tags \ {loc[c].name} :
                      latest_tags'[n] = latest_tags[n]
          \/ \E c \in Callers :
                /\ pc[c] \in {"st_reset", "sa_reset"} /\ pc'[c] = "idle"
                /\ latest_tags' = ResetDict(active_tags)]_vars

\* C18 witness: after a write_tag call returned normally, a poll cycle that
\* read two tags has updated the LiveSnapshot, and both of its values are there.
C18_Witness ==
    \E t \in ThreadIds :
        /\ thr[t].pc = "refresh"
        /\ Len(thr[t].values) = 2
        /\ \A k \in 1 .. 2 : latest_tags[thr[t].values[k][1]] = thr[t].values[k][2]
        /\ Returned("ui", "write_tag") /\ ret["ui"].res = "ok"

\* the positions in the catalog of the tags whose name is in names
PositionsOf(names) == { k \in 1 .. Len(tags) : tags[k].name \in names }

\* C19: the first statement of set_active_tags(names) makes the ActiveSet the
\* catalog tags whose name is in names, each once and in catalog order, and
\* no others; when the call returns, the ActiveSet is still that selection and
\* the LiveSnapshot holds a reset entry for every name of it and nothing else.
C19_SetActiveTagsEffect ==
    [][\A c \in Callers :
          /\ (pc[c] = "idle" /\ pc'[c] = "sa_reset")
                 => /\ NamesOf(active_tags') = loc'[c] \cap NamesOf(tags)
                    /\ Len(active_tags') = Cardinality(PositionsOf(loc'[c]))
                    /\ \A i \in 1 .. Len(active_tags') :
                          \E k \in PositionsOf(loc'[c]) :
                              /\ active_tags'[i] = tags[k]
                              /\ Cardinality({ l \in PositionsOf(loc'[c]) : l < k }) = i - 1
          /\ (pc[c] = "sa_reset" /\ pc'[c] # "sa_reset")
                 => /\ pc'[c] = "idle" /\ ret'[c].res = "ok"
                    /\ active_tags' = active_tags
                    /\ NamesOf(active_tags) = loc[c] \cap NamesOf(tags)
                    /\ DOMAIN latest_tags' = NamesOf(active_tags)
                    /\ \A n \in DOMAIN latest_tags' :
                          latest_tags'[n] = ResetDict(active_tags)[n]]_vars

\* C19 witness: set_active_tags has returned after a poll cycle had stored
\* its rows; one of the two catalog tags is selected and the LiveSnapshot
\* holds the reset entry of that tag alone.
C19_Witness ==
    /\ Returned("ui", "set_active_tags") /\ ret["ui"].res = "ok"
    /\ Len(tags) = 2 /\ Len(active_tags) = 1
    /\ latest_tags = ResetDict(active_tags)
    /\ samples # << >>

\* C20: set_tags stores every tag it is given in the tags table, and its last
\* statement sets the LiveSnapshot entry of every tag of the new catalog to the
\* reset value; once set_tags has returned, no poll cycle publishes for a tag
\* a value equal to that reset value, so that an entry not yet sampled can be
\* told from a sampled one.
C20_ResetValueIsAMarker ==
    [][/\ \A c \in Callers :
            /\ (pc[c] = "st_upsert" /\ pc'[c] # "st_upsert")
                   => \A k \in 1 .. Len(tags) :
                         /\ tags[k].name \in DOMAIN db_tags'
                         /\ db_tags'[tags[k].name] = tags[k]
            /\ (pc[c] = "st_reset" /\ pc'[c] # "st_reset")
                   => /\ DOMAIN latest_tags' = NamesOf(tags)
                      /\ \A n \in NamesOf(tags) : latest_tags'[n] = ResetDict(tags)[n]
       /\ \A t \in ThreadIds :
            (/\ thr[t].pc = "publish" /\ thr'[t].pc # "publish"
             /\ \E c \in Callers : Returned(c, "set_tags"))
                   => \A n \in ReadNames(t) : latest_tags'[n] # ResetDict(thr[t].iter)[n]]_vars

\* the definition of name n that comes last in the catalog list
LastDef(n) ==
    LET i == CHOOSE j \in 1 .. Len(tags) :
                 /\ tags[j].name = n
                 /\ \A k \in j + 1 .. Len(tags) : tags[k].name # n
    IN tags[i]

\* C21: for every name of the catalog list that set_tags was given last, the
\* definition that comes last in the list is the one in use: set_tags stores
\* it as the row of the tags table, read_once returns for the name the value
\* at its address, and the driver write of write_tag changes its address.
C21_LastDefinitionWins ==
    [][\A c \in Callers :
          /\ (pc[c] = "st_upsert" /\ pc'[c] # "st_upsert")
                 => \A n \in NamesOf(tags) : db_tags'[n] = LastDef(n)
          /\ (pc[c] = "rd_read" /\ pc'[c] = "idle" /\ ret'[c].res = "ok"
                 /\ loc[c].iter = tags)
                 => \A i \in 1 .. Len(loc[c].values) :
                       loc[c].values[i][2] = mem[LastDef(loc[c].values[i][1]).byte_index]
          /\ (pc[c] = "wt_write" /\ pc'[c] = "wt_insert")
                 => mem' = [mem EXCEPT ![LastDef(loc[c].name).byte_index] = loc[c].value]]_vars

\* caller c holds the result of the store query op
Holds(c, op) == pc[c] = "st_result" /\ loc[c].op = op

\* the rows of the samples table with the tag and a ts at or after since
AtOrAfter(tag_name, since_ts) ==
    { i \in 1 .. Len(samples) : samples[i].tag_name = tag_name /\ samples[i].ts >= since_ts }

\* C22: get_series(tag, since, limit) returns rows of the table, each once,
\* all of that tag and with ts >= since, in ascending ts order; when more than
\* limit rows qualify it returns exactly limit rows, and no row left out is
\* newer than a row returned (when at most limit qualify it returns them all).
C22_SeriesFilterOrderLimit ==
    \A c \in Callers : Holds(c, "get_series") =>
        LET ids == loc[c].ids
            Q   == AtOrAfter(loc[c].tag_name, loc[c].since_ts)
            R   == { ids[k] : k \in 1 .. Len(ids) }
        IN /\ R \subseteq Q
           /\ Cardinality(R) = Len(ids)
           /\ Len(loc[c].result) = Len(ids)
           /\ \A k \in 1 .. Len(ids) :
                 loc[c].result[k] = << samples[ids[k]].ts, samples[ids[k]].value >>
           /\ \A k, l \in 1 .. Len(ids) : k < l => samples[ids[k]].ts <= samples[ids[l]].ts
           /\ Len(ids) = IF Cardinality(Q) > loc[c].limit THEN loc[c].limit ELSE Cardinality(Q)
           /\ \A i \in Q \ R : \A j \in R : samples[i].ts <= samples[j].ts

\* more rows qualify than the limit admits, a row of the tag is older than
\* since, and the qualifying row left out was inserted after the row returned
C22_Witness ==
    \E c \in Callers :
        /\ Holds(c, "get_series")
        /\ loc[c].limit = 1
        /\ Cardinality(AtOrAfter(loc[c].tag_name, loc[c].since_ts)) = 2
        /\ \E i \in 1 .. Len(samples) :
              samples[i].tag_name = loc[c].tag_name /\ samples[i].ts < loc[c].since_ts
        /\ Len(loc[c].result) = 1
        /\ \E i \in AtOrAfter(loc[c].tag_name, loc[c].since_ts) :
              /\ i = Len(samples)
              /\ samples[i].ts < loc[c].result[1][1]

Requested(arg) ==
    IF arg.given THEN arg.names ELSE { samples[i].tag_name : i \in 1 .. Len(samples) }

\* C24: get_latest_values maps each requested tag that has a sample to the
\* value of a sample of that tag with the greatest ts, whatever the order of
\* insertion; a requested tag without samples is not a key of the result; and
\* every value of the result is the value of a greatest-ts sample of its key.
C24_LatestIsValueAtMaxTs ==
    \A c \in Callers : Holds(c, "get_latest_values") =>
        LET f == loc[c].result
            IsLatest(n, v) ==
                \E i \in 1 .. Len(samples) :
                    /\ samples[i].tag_name = n
                    /\ samples[i].value = v
                    /\ \A j \in 1 .. Len(samples) :
                          samples[j].tag_name = n => samples[j].ts <= samples[i].ts
        IN /\ \A n \in Requested(loc[c].arg) :
                 IF \E i \in 1 .. Len(samples) : samples[i].tag_name = n
                 THEN n \in DOMAIN f
                 ELSE n \notin DOMAIN f
           /\ \A n \in DOMAIN f : IsLatest(n, f[n])

\* a tag with rows at ts 0, 2, 1 in this order of insertion is asked for along
\* with a tag without samples
C24_Witness ==
    \E c \in Callers :
        /\ Holds(c, "get_latest_values")
        /\ loc[c].arg.given
        /\ loc[c].arg.names = Names
        /\ Len(samples) = 3
        /\ \A i \in 1 .. 3 : samples[i].tag_name = "a"
        /\ samples[1].ts = 0 /\ samples[2].ts = 2 /\ samples[3].ts = 1
        /\ loc[c].result = [n \in {"a"} |-> samples[2].value]

\* C25: when a list of names is passed to get_latest_values, every key of the
\* result is a name of the list, the empty list included.
C25_KeysAreRequestedNames ==
    \A c \in Callers :
        (Holds(c, "get_latest_values") /\ loc[c].arg.given)
            => DOMAIN loc[c].result \subseteq loc[c].arg.names

\* thread d is inside insert_samples and has inserted some but not all rows
PartBatch(d) ==
    pc[d] = "bt_row" /\ 0 < Len(loc[d].ids) /\ Len(loc[d].ids) < Len(loc[d].rows)

\* C26: insert_samples is atomic on the shared connection: a query of another
\* thread never reads the table while part of a batch is in it; a commit of
\* another thread never commits part of a batch; a rollback never takes back a
\* row that another thread inserted; and after the rollback of a failed batch
\* no row of the batch is in the table.
C26_BatchIsAtomic ==
    [][\A c \in Callers :
          /\ (pc[c] = "idle" /\ pc'[c] = "st_result")
                 => \A d \in Callers \ {c} : ~PartBatch(d)
          /\ (pc[c] = "bt_row" /\ pc'[c] = "idle")
                 => \A d \in Callers \ {c} : ~PartBatch(d)
          /\ (pc[c] = "bt_rollback" /\ pc'[c] = "idle")
                 => /\ \A d \in Callers \ {c} :
                          pc[d] = "bt_row" =>
                              \A k \in 1 .. Len(loc[d].ids) : loc[d].ids[k] <= Len(samples')
                    /\ \A k \in 1 .. Len(loc[c].ids) : loc[c].ids[k] > Len(samples')]_vars

\* C27: after upsert_tags(specs) the tags table holds the names it held and
\* the names of specs; the row of every name of specs carries the area, db,
\* byte_index, bit_index and data_type of the spec (the last one of that
\* name); rows of other names and the samples table are as before; and
\* applying the same specs once more leaves the table as it is.
C27_UpsertTagsIdempotentByName ==
    \A c \in Callers : Holds(c, "upsert_tags") =>
        LET lst == loc[c].specs
            old == loc[c].tags_before
        IN /\ DOMAIN db_tags = DOMAIN old \cup NamesOf(lst)
           /\ \A i \in 1 .. Len(lst) :
                 (\A j \in i + 1 .. Len(lst) : lst[j].name # lst[i].name)
                     => /\ db_tags[lst[i].name].area = lst[i].area
                        /\ db_tags[lst[i].name].db = lst[i].db
                        /\ db_tags[lst[i].name].byte_index = lst[i].byte_index
                        /\ db_tags[lst[i].name].bit_index = lst[i].bit_index
                        /\ db_tags[lst[i].name].data_type = lst[i].data_type
           /\ \A n \in DOMAIN old \ NamesOf(lst) : db_tags[n] = old[n]
           /\ samples = loc[c].samples_before
           /\ upsert_tags(db_tags, lst) = db_tags

\* a spec replaces all five fields of the row of its name, while the table
\* holds a row of another name and a sample
C27_Witness ==
    \E c \in Callers :
        /\ Holds(c, "upsert_tags")
        /\ samples # << >>
        /\ Len(loc[c].specs) = 1
        /\ DOMAIN loc[c].tags_before = Names
        /\ LET n == loc[c].specs[1].name
               old == loc[c].tags_before[n]
           IN /\ old.area # db_tags[n].area
              /\ old.db # db_tags[n].db
              /\ old.byte_index # db_tags[n].byte_index
              /\ old.bit_index # db_tags[n].bit_index
              /\ old.data_type # db_tags[n].data_type

\* the rows of the samples table that are committed
Committed == IF txn = -1 THEN samples ELSE SubSeq(samples, 1, txn)

\* C28: samples are append-only: whatever step the poll loops and the callers
\* of connect, start_polling, write_tag and read_once take, every committed
\* row of the samples table stays where it is and as it is.
C28_SamplesAppendOnly ==
    [][/\ Len(Committed') >= Len(Committed)
       /\ SubSeq(Committed', 1, Len(Committed)) = Committed]_vars

\* the table holds a row written by a poll cycle and, after it, a row with
\* another value for the same tag written by write_tag
C28_Witness ==
    /\ Len(samples) >= 2
    /\ \E c \in Callers :
          /\ pc[c] = "wt_publish"
          /\ samples[Len(samples)].tag_name = loc[c].name
          /\ \E i \in 1 .. Len(samples) - 1 :
                /\ samples[i].tag_name = loc[c].name
                /\ samples[i].value # loc[c].value

\* C29: when driver.write_tag of a BOOL tag has returned, the bit of the tag
\* is the written value and the other seven bits of the byte are those of the
\* seed, for every seed byte, every bit_index 0..7 and both values; what
\* read_tag then decodes is the written value.
C29_BoolWriteChangesOneBit ==
    \A c \in Callers :
        /\ pc[c] \in {"dw_done", "dw_back"}
              => \A j \in 0 .. 7 :
                    Bit(mem[loc[c].tag.byte_index], j) =
                        IF j = loc[c].tag.bit_index
                        THEN (IF loc[c].value # 0 THEN 1 ELSE 0)
                        ELSE Bit(loc[c].seed, j)
        /\ pc[c] = "dw_back"
              => _get_bool(loc[c].data, 0, loc[c].tag.bit_index) = (loc[c].value # 0)

\* bit 3 of the seed 10101010 was cleared and the other bits are in place
C29_Witness ==
    \E c \in Callers :
        /\ pc[c] = "dw_back"
        /\ loc[c].seed = 170
        /\ loc[c].tag.bit_index = 3
        /\ loc[c].value = 0
        /\ mem[loc[c].tag.byte_index] = 162

\* C30: for every data type and every value of its range, _encode_value gives
\* bytes and _decode_value gives the value back from them.
C30_DecodeEncodeRoundTrip ==
    \A c \in Callers :
        /\ pc[c] # "cd_raised"
        /\ pc[c] = "cd_done" => loc[c].data = loc[c].value

\* C31: the bytes _encode_value gives for a WORD, DWORD, INT or DINT value are
\* as many as the size of the type, each 0..255, and read most significant
\* byte first they are the value, a negative value in two's complement (the
\* first byte counts as byte - 256 when it is 128 or more); DINT -1 gives
\* FF FF FF FF, DWORD 1 gives 00 00 00 01 and REAL 1.0 gives 3F 80 00 00.
C31_BigEndianEncoding ==
    \A c \in Callers : pc[c] = "cd_decode" =>
        LET dt == loc[c].tag.data_type
            v  == loc[c].value
            d  == loc[c].data
            n  == Len(d)
            top == IF v < 0 THEN d[1] - 256 ELSE d[1]
        IN /\ dt \in {"WORD", "INT"}
                => /\ n = 2
                   /\ \A i \in 1 .. n : d[i] \in 0 .. 255
                   /\ v < 0 => d[1] >= 128
                   /\ top * 256 + d[2] = v
           /\ dt \in {"DWORD", "DINT"}
                => /\ n = 4
                   /\ \A i \in 1 .. n : d[i] \in 0 .. 255
                   /\ v < 0 => d[1] >= 128
                   /\ top * 16777216 + d[2] * 65536 + d[3] * 256 + d[4] = v
           /\ (dt = "DINT" /\ v = -1) => d = << 255, 255, 255, 255 >>
           /\ (dt = "DWORD" /\ v = 1) => d = << 0, 0, 0, 1 >>
           /\ (dt = "REAL" /\ v = [sign |-> 0, exponent |-> 127, fraction |-> 0])
                => d = << 63, 128, 0, 0 >>

\* DINT -65536 has been encoded as FF FF 00 00
C31_Witness ==
    \E c \in Callers :
        /\ pc[c] = "cd_decode"
        /\ loc[c].tag.data_type = "DINT"
        /\ loc[c].value = -65536
        /\ loc[c].data = << 255, 255, 0, 0 >>

\* C32: _decode_value raises, and returns no value, whenever the length of
\* the data differs from the size of the tag's data type, and whenever the
\* data type is not one of the seven.
C32_DecodeRejectsWrongLength ==
    \A c \in Callers : pc[c] = "dc_done" =>
        /\ Len(loc[c].data) # size(loc[c].tag.data_type) => ~loc[c].out.ok
        /\ loc[c].tag.data_type \notin DataTypes => ~loc[c].out.ok

\* the service has been constructed and none of its methods has been called
JustConstructed ==
    /\ \A c \in Callers : ops[c] = 0 /\ pc[c] = "idle" /\ ret[c] = NoCall
    /\ \A t \in ThreadIds : thr[t].pc = "unborn"
    /\ driver = 0

\* C33: when the service has been constructed, the ActiveSet and the
\* LiveSnapshot are empty, whatever tags the constructor was given.
C33_ConstructionLeavesEmpty ==
    JustConstructed => (active_tags = << >> /\ latest_tags = << >>)

\* ---------------------------------------------------------------- C34
\* a poll loop takes the list self.active_tags refers to (read_once, line 83)
ReadsActiveSet(t) == thr[t].pc = "ro_iter" /\ thr'[t].pc = "ro_read"

\* a caller has replaced self.active_tags (line 62) and has not yet reset
\* the snapshot (lines 63-65)
MidSetActive == \E c \in Callers : pc[c] = "sa_reset"

\* C34: every access to the ActiveSet and the LiveSnapshot happens under one
\* mutex, so that the replacement of the ActiveSet and the reset of the
\* LiveSnapshot in set_active_tags are one atomic step for every other thread:
\* no poll loop reads the ActiveSet between the two.
C34_SetActiveAtomic ==
    [][MidSetActive => \A t \in ThreadIds : ~ReadsActiveSet(t)]_vars

\* ---------------------------------------------------------------- C35
\* how many threads and callers are inside a with-block on the lock
HolderCount ==
    Cardinality({ t \in ThreadIds : ThreadHolds(t) }) + Cardinality({ c \in Callers : CallerHolds(c) })

\* a step of the one that holds the lock
HolderStep ==
    \/ \E t \in ThreadIds : ThreadHolds(t) /\ LockPollStep(t)
    \/ CallerHolds("ui") /\ LockServiceStep("ui")
    \/ CallerHolds("aux") /\ LockReaderStep("aux")

\* the step changes nothing but the snapshot: no driver call, no write to the
\* store, no reading of the clock
InMemoryOnly == UNCHANGED << envVars, now, serviceVars, storeVars >>

\* C35: the lock of the snapshot is held by one thread at a time, its holder
\* can always go on, and the holder's next step is an in-memory update of the
\* snapshot that leaves the with-block: the lock is not held across a driver
\* call, a store call or a sleep, nor taken again by its holder, so nobody
\* waits for it longer than one snapshot update and nobody deadlocks on it.
C35_LockHeldBriefly ==
    [][ /\ HolderCount <= 1
        /\ locked => ENABLED HolderStep
        /\ \A t \in ThreadIds :
              ThreadHolds(t) /\ thr'[t] # thr[t] =>
                  thr'[t].pc \notin LockedPcs /\ InMemoryOnly
        /\ \A c \in Callers :
              CallerHolds(c) /\ pc'[c] # pc[c] =>
                  pc'[c] \notin LockedPcs /\ InMemoryOnly ]_vars

\* a reader waits at its with statement while the poll loop is inside its own,
\* after the caller's write_tag has published
C35_Witness ==
    /\ pc["aux"] = "gt_enter"
    /\ \E t \in ThreadIds : thr[t].pc = "publish_locked"
    /\ Returned("ui", "write_tag") /\ ret["ui"].res = "ok"

\* ---------------------------------------------------------------- C36
\* the caller's last call was a write_tag that returned, and the caller stays
\* outside every method over the step
AfterWrite ==
    /\ Returned("ui", "write_tag") /\ ret["ui"].res = "ok"
    /\ pc'["ui"] = "idle" /\ ret'["ui"] = ret["ui"]

\* the snapshot shows for the tag what the controller holds at its address
ShowsController(tag, snapshot) ==
    tag.name \in DOMAIN snapshot /\ snapshot[tag.name] = mem[tag.byte_index]

\* C36: once write_tag(name, v) has returned, a poll cycle that read the tag
\* before the write does not publish the older value: a snapshot entry that
\* shows the written value, which the controller holds, does not go back to
\* the value from before the write.
C36_NoStalePublish ==
    [][AfterWrite =>
          \A i \in 1 .. Len(tags) :
              ShowsController(tags[i], latest_tags) => ShowsController(tags[i], latest_tags')]_vars

\* ---------------------------------------------------------------- C37
\* the caller's last call was a set_active_tags that returned, and the caller
\* stays outside every method over the step
AfterSetActive ==
    /\ Returned("ui", "set_active_tags") /\ ret["ui"].res = "ok"
    /\ pc'["ui"] = "idle" /\ ret'["ui"] = ret["ui"]

\* C37: after set_active_tags(names) has returned, the poll loop adds no
\* entry to the LiveSnapshot for a tag outside the new ActiveSet: with no
\* write_tag since the reset, the keys of the LiveSnapshot stay within the
\* names of the ActiveSet.
C37_NoEntryOutsideActiveSet ==
    [][AfterSetActive =>
          (DOMAIN latest_tags \subseteq NamesOf(active_tags)
              => DOMAIN latest_tags' \subseteq NamesOf(active_tags'))]_vars

\* ---------------------------------------------------------------- C38
\* both changes of the byte are complete
BothDone == \A c \in Callers : pc[c] = "dw_done"

\* C38: two Bool writes to different bits of one byte, made at the same time,
\* or one made while the controller changes another bit, both take effect:
\* when both are complete each target bit holds the value written to it.
C38_NoLostBitUpdate ==
    BothDone =>
        \A c \in Callers :
            _get_bool(<< mem[loc[c].tag.byte_index] >>, 0, loc[c].tag.bit_index) = (loc[c].value # 0)

\* ---------------------------------------------------------------- C39
\* write_tag ends with KeyError in this step: _find_tag found no tag of that name
UnknownTagRaised(c) == pc[c] = "wt_find" /\ pc'[c] = "idle" /\ ret'[c].res = "KeyError"

\* the names of self.tags are the names of the tags table
CatalogsAgree == NamesOf(tags) = DOMAIN db_tags

\* C39: after construction and after every set_tags call the service's
\* catalog and the store's catalog hold the same names and the ActiveSet is
\* within the service's catalog; hence write_tag raises no KeyError for a
\* name that list_tags() returns.
C39_CatalogsInStep ==
    [][ /\ pc["ui"] = "idle" =>
              CatalogsAgree /\ NamesOf(active_tags) \subseteq NamesOf(tags)
        /\ UnknownTagRaised("ui") => loc["ui"].name \notin DOMAIN db_tags ]_vars

====
